---- MODULE Spec2Model ----
(***************************************************************************)
(* A model of the protocol client of the agent-relay Python SDK            *)
(* (packages/sdk-py/src/agent_relay/client.py): the broker subprocess      *)
(* lifecycle, the request/response correlation over the pending table,     *)
(* the per-request timers, the exit monitor and the shutdown escalation.   *)
(*                                                                         *)
(* The client runs on one cooperative event loop: every action below is    *)
(* the code that runs between two suspension points (await) of one task,   *)
(* or one callback of the loop (a timer, a stdout line, a process exit).   *)
(***************************************************************************)
EXTENDS Integers, Sequences, FiniteSets, TLC

\* Bounds of the model.
MaxReq == 3        \* requests the client may send (request_seq never exceeds it)
MaxProcs == 2      \* broker subprocesses the client may spawn
MaxEvents == 3     \* event envelopes the brokers may emit
MaxLines == 2      \* stderr lines the brokers may write in all
MaxListeners == 2  \* length of a listener list
max_buffer_size == 2  \* stands for self._max_buffer_size (1000 in the program)
MaxWaits == 2      \* wait_for_* calls made on the facade

\* The tasks that call the client's public operations.
Callers == {"a", "b"}

Procs == 1..MaxProcs
ReqIds == 1..MaxReq
NoProc == 0        \* self._process is None, self._exit_future is None, ...
NoId == 0          \* an envelope without request_id

\* The callbacks that subscribe to events, and to stderr lines.
Listeners == {"l1", "l2"}
StderrListeners == {"s1"}

\* The agent names that events and facade operations are about.
Names == {"A", "B"}

\* self._last_stderr_line is None
NoLine == [proc |-> NoProc, n |-> 0, blank |-> TRUE]

VARIABLES
    process,       \* self._process: NoProc or the subprocess it refers to
    procState,     \* per subprocess: "unborn", "running", "terminating" (SIGTERM sent),
                   \* "killed" (SIGKILL sent), "exited" (it has a return code)
    request_seq,   \* self._request_seq
    reqs,          \* the envelopes written to stdin, in order: reqs[n] is req_<n>
    pending,       \* self._pending: request id -> [expected_type, future]
    timers,        \* the armed timeout handles (loop.call_later), by request id
    fut,           \* the request futures, by request id
    started,       \* self._started
    starting_lock, \* self._starting_lock: its holder, or "free"
    exit_future,   \* self._exit_future: NoProc or the session whose future it is
    exitFut,       \* the exit futures, one per spawn: "none", "pending", "resolved", "cancelled"
    reader_task,   \* self._reader_task: NoProc or the subprocess it reads
    readerState,   \* the stdout reader tasks: "none", "running", "ended" (EOF or cancelled)
    monitor,       \* the exit monitor tasks: "none", "waiting", "done"
    callers,       \* the calling tasks: where each stands in the operation it runs
    event_buffer,      \* self._event_buffer: the events kept, oldest first
    event_listeners,   \* self._event_listeners, in registration order
    delivered,         \* the listener calls of the last dispatch: <<listener, event>>
    nevents,           \* the events read from stdout so far (event k is the k-th emitted)
    errPipe,           \* per subprocess: the stderr lines written and not read yet
    errWritten,        \* per subprocess: every stderr line it wrote, in order
    last_stderr_line,  \* self._last_stderr_line
    stderr_listeners,  \* self._stderr_listeners, in registration order
    errDelivered,      \* per stderr listener: the lines it was called with, in order
    exit_detail,       \* per subprocess: the stderr line in its exit error's message
    stderrState,       \* the stderr reader tasks: "none", "running", "ended"
    known_agents,          \* relay._known_agents: the names that have a handle
    ready_agents,          \* relay._ready_agents
    message_ready_agents,  \* relay._message_ready_agents
    exited_agents,         \* relay._exited_agents
    idle_agents,           \* relay._idle_agents
    output_listeners,      \* relay._output_listeners: the names that have listeners
    exit_resolvers,        \* relay._exit_resolvers: the names with a future installed
    idle_resolvers,        \* relay._idle_resolvers: the names with a future installed
    readyWait,    \* per name, wait_for_agent_ready: "none", "waiting", "returned" (at
                  \* once), "resolved" (by an event), "timeout"
    messageWait,  \* per name, wait_for_agent_message: "none", "waiting", "returned" (at
                  \* once), "resolved" (by an event), "exited_error", "timeout"
    exitWait,     \* per name, Agent.wait_for_exit: "none", "waiting", "exited",
                  \* "released", "timeout"
    idleWait,     \* per name, Agent.wait_for_idle: "none", "waiting", "idle", "exited",
                  \* "timeout"
    nwaits,       \* the wait_for_* calls made so far
    anyAgents,    \* wait_for_any: the agents it was called with, in order
    anyState,     \* wait_for_any: "none", "waiting", "returned", "error" (ValueError)
    anyExit,      \* per name, the wait_for_exit of its task: "none", "waiting",
                  \* "exited", "released", "timeout", "cancelled"
    anyOrder,     \* the <<name, outcome>> of its waits that resolved, in that order
    anyResult,    \* the pair wait_for_any returned, <<>> before
    relayState,   \* the facade: "new" (relay._client is None, never started),
                  \* "started", "stopping" (in shutdown(), awaiting the client's
                  \* shutdown), "stopped" (shutdown() returned)
    wired,        \* relay._unsubscribe_event is set: the facade's listener is
                  \* subscribed to the client's events
    pty_cli,      \* _build_pty_args_with_model: its argument cli
    pty_args,     \* its argument args, the caller's argument vector
    pty_model,    \* its argument model, NoModel for None and for ""
    built_args,   \* what it returned for them
    rebuilt_args, \* what it returned for (cli, built_args, model)
    nbuilt,       \* how often it was applied: 0, 1, 2
    runPc,        \* WorkflowBuilder.run(): "idle", "written" (the temporary file is
                  \* written), "running" (the runner's output is being read),
                  \* "returned", "raised"
    tmpFile,      \* the temporary configuration file: "none", "exists", "removed"
    cli_lines,    \* _execute_cli: the lines read from the runner, in order
    return_code,  \* the runner's exit code, once run() has returned
    result,       \* the WorkflowResult returned: its status and its error
    wf_agents,    \* WorkflowBuilder._agents: the agent definitions, in order
    wf_steps,     \* WorkflowBuilder._steps: the step definitions, in order
    wf_pattern,   \* WorkflowBuilder._pattern, NoBuilder before the builder is made
    stages,       \* the stages the builder was made from by pipeline(), <<>> for
                  \* a builder made by workflow()
    exit_calls,   \* the Agent.wait_for_exit calls, several per name: where each
                  \* stands ("none", "waiting", "exited", "released", "timeout",
                  \* "cancelled"), the name of its handle, whether it has a timeout
    exit_resolver_of,  \* per name: the call whose future relay._exit_resolvers
                  \* holds for it, NoCall for none
    spawnCall,    \* per name, AgentRelay.spawn: "none", "sent" (the spawn request is
                  \* written and its response awaited), "returned"
    hooks,        \* the event kinds whose hook the caller has set on the facade
                  \* (relay.on_agent_exited, ...)
    hook_saw,     \* what the hook called last found in the facade for the
                  \* event's name, NotCalled before any call
    kindless,     \* the events (by number) whose payload has no kind
    listCall,     \* AgentRelay.list_agents: "none", "sent" (the request is written),
                  \* "answered" (the reader has resolved its future, the call
                  \* has not resumed yet)
    raw_list,     \* the names in the response the call will resume with
    config        \* what the last to_config() gave: NoConfig before, ValueError,
                  \* or the document

\* The lifecycle of the client: process, requests, shutdown.
lifecycleVars == <<process, procState, request_seq, reqs, pending, timers, fut,
                   started, starting_lock, exit_future, exitFut, reader_task,
                   readerState, monitor, callers>>

\* Events: the ring buffer, the subscribers and what they received.
eventVars == <<event_buffer, event_listeners, delivered, nevents>>

\* Stderr: the pipe, the subscribers and what they received.
errVars == <<errPipe, errWritten, stderr_listeners, errDelivered>>

\* Everything outside the lifecycle.
\* The facade: the registry, the four state sets, the resolvers, the waits.
stateSets == <<ready_agents, message_ready_agents, exited_agents, idle_agents>>
waitVars == <<readyWait, messageWait, exitWait, idleWait, nwaits>>
facadeVars == <<known_agents, stateSets, output_listeners, exit_resolvers,
                idle_resolvers, waitVars>>

\* AgentRelay.wait_for_any and the tasks it creates.
anyVars == <<anyAgents, anyState, anyExit, anyOrder, anyResult>>

\* What the specifications of the facade's handlers leave alone.
\* The facade's own lifecycle.
relayVars == <<relayState, wired>>

\* The argument shaper, its inputs and results.
argVars == <<pty_cli, pty_args, pty_model, built_args, rebuilt_args, nbuilt>>

\* The workflow runner.
runVars == <<runPc, tmpFile, cli_lines, return_code, result>>

\* The workflow builder and the document it builds.
buildVars == <<wf_agents, wf_steps, wf_pattern, stages, config>>

\* Agent.wait_for_exit calls that share a name.
callVars == <<exit_calls, exit_resolver_of>>

\* The caller's hooks on the facade.
hookVars == <<hooks, hook_saw>>

\* AgentRelay.list_agents in progress.
listVars == <<listCall, raw_list>>

moreVars == <<buildVars, callVars, spawnCall, hookVars, kindless, listVars>>

extraVars == <<anyVars, relayVars, argVars, runVars, moreVars>>

ioVars == <<eventVars, errVars, last_stderr_line, exit_detail, stderrState, facadeVars,
            extraVars>>

vars == <<lifecycleVars, ioVars>>

----------------------------------------------------------------------------
\* Values: what a future holds, what a caller got.

NoVal == [kind |-> "none", msg |-> "", proc |-> NoProc, request_id |-> NoId]

\* AgentRelayProtocolError
ProtocolError == [kind |-> "protocol", msg |-> "error", proc |-> NoProc, request_id |-> NoId]

\* AgentRelayProcessError(msg); proc is the subprocess an exit error speaks of.
ProcessError(msg, p) == [kind |-> "process", msg |-> msg, proc |-> p, request_id |-> NoId]

\* A response envelope, as the value of a resolved future.
Result(env) == [kind |-> "result", msg |-> env.type, proc |-> env.src, request_id |-> env.request_id]

\* A future nobody has set yet.
NewFuture == [sets |-> 0, by |-> "none", val |-> NoVal]

\* future.done()
Done(f) == f.sets > 0

\* future.set_result / future.set_exception, by one of the three completers.  A
\* second set of a done future (InvalidStateError in asyncio) is counted, and
\* leaves the first value.
SetFuture(f, by, val) ==
    IF Done(f) THEN [f EXCEPT !.sets = 2]
    ELSE [sets |-> 1, by |-> by, val |-> val]

----------------------------------------------------------------------------
\* The initial state: AgentRelayClient.__init__.

\* A calling task: where it stands (pc), the request future it awaits (f), and
\* in shutdown() its local `process` (proc) and the exit future it waits on
\* (exitf).  For a start_client() call, `after` notes that it was made after a
\* shutdown() had returned, and `seen` how many subprocesses had been spawned
\* when it was made.
IdleCaller == [pc |-> "idle", f |-> NoId, proc |-> NoProc, exitf |-> NoProc,
               after |-> FALSE, seen |-> 0]

\* {} as a pending table
EmptyPending == [n \in {} |-> [expected_type |-> "", future |-> NoId]]

\* The client and the facade after construction.
ProgramInit ==
    /\ process = NoProc
    /\ procState = [p \in Procs |-> "unborn"]
    /\ request_seq = 0
    /\ reqs = <<>>
    /\ pending = EmptyPending
    /\ timers = {}
    /\ fut = [n \in ReqIds |-> NewFuture]
    /\ started = FALSE
    /\ starting_lock = "free"
    /\ exit_future = NoProc
    /\ exitFut = [p \in Procs |-> "none"]
    /\ reader_task = NoProc
    /\ readerState = [p \in Procs |-> "none"]
    /\ monitor = [p \in Procs |-> "none"]
    /\ callers = [c \in Callers |-> IdleCaller]
    /\ event_buffer = <<>>
    /\ event_listeners = <<>>
    /\ delivered = <<>>
    /\ nevents = 0
    /\ errPipe = [p \in Procs |-> <<>>]
    /\ errWritten = [p \in Procs |-> <<>>]
    /\ last_stderr_line = NoLine
    /\ stderr_listeners = <<>>
    /\ errDelivered = [l \in StderrListeners |-> <<>>]
    /\ exit_detail = [p \in Procs |-> NoLine]
    /\ stderrState = [p \in Procs |-> "none"]
    /\ known_agents = {}
    /\ ready_agents = {}
    /\ message_ready_agents = {}
    /\ exited_agents = {}
    /\ idle_agents = {}
    /\ output_listeners = {}
    /\ exit_resolvers = {}
    /\ idle_resolvers = {}
    /\ readyWait = [n \in Names |-> "none"]
    /\ messageWait = [n \in Names |-> "none"]
    /\ exitWait = [n \in Names |-> "none"]
    /\ idleWait = [n \in Names |-> "none"]
    /\ nwaits = 0
    /\ anyAgents = <<>>
    /\ anyState = "none"
    /\ anyExit = [n \in Names |-> "none"]
    /\ anyOrder = <<>>
    /\ anyResult = <<>>
    /\ relayState = "new"
    /\ wired = FALSE

\* The argument shaper before it is applied, for a spawn without arguments.
ArgsIdle ==
    /\ pty_cli = "claude"
    /\ pty_args = <<>>
    /\ pty_model = ""
    /\ built_args = <<>>
    /\ rebuilt_args = <<>>
    /\ nbuilt = 0

\* error is None
NoError == "<None>"

\* No WorkflowResult yet.
NoResult == [status |-> "", error |-> NoError]

\* The workflow builder before run() is called.
RunIdle ==
    /\ runPc = "idle"
    /\ tmpFile = "none"
    /\ cli_lines = <<>>
    /\ return_code = 0
    /\ result = NoResult

\* to_config() has not been called
NoConfig == [agents |-> <<>>, steps |-> <<>>, pattern |-> "<none>"]

\* to_config() raised ValueError
ValueError == [agents |-> <<>>, steps |-> <<>>, pattern |-> "<ValueError>"]

\* no WorkflowBuilder has been made
NoBuilder == "<no builder>"

\* Before a builder is made, by workflow() or by a template.
BuilderIdle ==
    /\ wf_agents = <<>>
    /\ wf_steps = <<>>
    /\ wf_pattern = NoBuilder
    /\ stages = <<>>
    /\ config = NoConfig

ExitCalls == {"w1", "w2", "w3"}

\* relay._exit_resolvers has no entry for the name
NoCall == "<none>"

\* A wait_for_exit call that was not made yet.
NoExitCall == [pc |-> "none", name |-> "", timed |-> FALSE]

\* No wait_for_exit call was made.
CallsIdle ==
    /\ exit_calls = [w \in ExitCalls |-> NoExitCall]
    /\ exit_resolver_of = [n \in Names |-> NoCall]

\* No spawn() was called.
SpawnIdle == spawnCall = [n \in Names |-> "none"]

\* no hook was called
NotCalled == [kind |-> "", name |-> "", known |-> FALSE, exited |-> FALSE,
              ready |-> FALSE, idle |-> FALSE, exit_resolver |-> FALSE,
              idle_resolver |-> FALSE]

\* AgentRelay.__init__: every hook is None.
HooksIdle ==
    /\ hooks = {}
    /\ hook_saw = NotCalled

\* No event was read.
KindsIdle == kindless = {}

\* No list_agents() is in progress.
ListIdle ==
    /\ listCall = "none"
    /\ raw_list = {}

MoreIdle == BuilderIdle /\ CallsIdle /\ SpawnIdle /\ HooksIdle /\ KindsIdle /\ ListIdle

Init == ProgramInit /\ ArgsIdle /\ RunIdle /\ MoreIdle

----------------------------------------------------------------------------
\* The pending table and the three completers of a request.

\* self._pending.pop(n, None): the table without n
Pop(table, n) == [k \in (DOMAIN table) \ {n} |-> table[k]]

\* The requests subprocess p has read from its stdin.
Received(p) == {n \in 1..Len(reqs) : reqs[n].proc = p /\ reqs[n].delivered}

\* A variant of the outcome in which an error envelope is reported like an
\* unexpected response type.
OutcomeErrorAsProcess(env, entry) ==
    IF env.type # entry.expected_type
    THEN ProcessError("unexpected response type", NoProc)
    ELSE Result(env)

\* What a matched envelope makes of the request (client.py 321-342).
Outcome(env, entry) ==
    IF env.type = "error" THEN ProtocolError
    ELSE IF env.type # entry.expected_type
         THEN ProcessError("unexpected response type", NoProc)
         ELSE Result(env)

\* A variant of _handle_stdout_line that looks the entry up with get() instead
\* of pop() and leaves its timer armed.
HandleStdoutLineKeep(env) ==
    IF env.request_id = NoId \/ env.request_id \notin DOMAIN pending
    THEN UNCHANGED <<pending, timers, fut>>
    ELSE LET entry == pending[env.request_id] IN
         /\ UNCHANGED <<pending, timers>>
         /\ fut' = [fut EXCEPT ![entry.future] =
                        SetFuture(@, "envelope", Outcome(env, entry))]

\* A variant of _handle_stdout_line that correlates by order of sending: the
\* envelope completes the oldest pending request, whatever id it carries.
HandleStdoutLineOldest(env) ==
    IF env.request_id = NoId \/ env.request_id \notin DOMAIN pending
    THEN UNCHANGED <<pending, timers, fut>>
    ELSE LET oldest == CHOOSE k \in DOMAIN pending : \A j \in DOMAIN pending : k <= j
             entry == pending[oldest] IN
         /\ pending' = Pop(pending, oldest)
         /\ timers' = timers \ {oldest}
         /\ fut' = [fut EXCEPT ![entry.future] =
                        SetFuture(@, "envelope", Outcome(env, entry))]

\* _handle_stdout_line on a valid, non-event envelope: correlate it to a pending
\* request, cancel that request's timer and complete its future.
HandleStdoutLine(env) ==
    IF env.request_id = NoId \/ env.request_id \notin DOMAIN pending
    THEN UNCHANGED <<pending, timers, fut>>
    ELSE LET entry == pending[env.request_id] IN
         /\ pending' = Pop(pending, env.request_id)
         /\ timers' = timers \ {env.request_id}
         /\ fut' = [fut EXCEPT ![entry.future] =
                        SetFuture(@, "envelope", Outcome(env, entry))]

\* _fail_all_pending(error): cancel every timer, fail every future that is not
\* done, clear the table.
FailAllPending(error) ==
    /\ timers' = timers \ DOMAIN pending
    /\ fut' = [n \in ReqIds |->
                 IF /\ \E k \in DOMAIN pending : pending[k].future = n
                    /\ ~Done(fut[n])
                 THEN SetFuture(fut[n], "drain", error)
                 ELSE fut[n]]
    /\ pending' = EmptyPending

\* A variant of on_timeout that fails the future and leaves the entry in the
\* pending table.
OnTimeoutNoPop(n) ==
    /\ pending' = pending
    /\ fut' = [fut EXCEPT ![n] =
                   IF Done(@) THEN @
                   ELSE SetFuture(@, "timeout", ProcessError("request timed out", NoProc))]
    /\ timers' = timers \ {n}

\* on_timeout of req_<n>, the callback of its timer.
OnTimeout(n) ==
    /\ pending' = Pop(pending, n)
    /\ fut' = [fut EXCEPT ![n] =
                   IF Done(@) THEN @
                   ELSE SetFuture(@, "timeout", ProcessError("request timed out", NoProc))]
    /\ timers' = timers \ {n}

\* A variant of _send_request that arms no timer.
SendRequestNoTimer(target, live, type_, expected_type) ==
    LET n == request_seq + 1 IN
    /\ request_seq' = n
    /\ timers' = timers
    /\ pending' = [k \in (DOMAIN pending) \cup {n} |->
                     IF k = n THEN [expected_type |-> expected_type, future |-> n]
                     ELSE pending[k]]
    /\ reqs' = Append(reqs, [type |-> type_, proc |-> target,
                             delivered |-> live])

\* _send_request from the sequence increment to the write to stdin: a new id
\* (its future is fut[n], not set so far), its timer, its pending entry, the envelope written to `target`
\* (which reads it only if it is `live`: a write to a dead child's pipe is dropped).
SendRequest(target, live, type_, expected_type) ==
    LET n == request_seq + 1 IN
    /\ request_seq' = n
    /\ timers' = timers \cup {n}
    /\ pending' = [k \in (DOMAIN pending) \cup {n} |->
                     IF k = n THEN [expected_type |-> expected_type, future |-> n]
                     ELSE pending[k]]
    /\ reqs' = Append(reqs, [type |-> type_, proc |-> target,
                             delivered |-> live])

----------------------------------------------------------------------------
\* The calling tasks: start_client() and the request wrappers.

Idle(c) == callers[c].pc = "idle"

\* The operation of c ends (it returns or raises): the task is idle again.
Finish(c) == [callers EXCEPT ![c] = IdleCaller]

\* The awaiting task took the outcome of future n; the future is released.
Released == [sets |-> 1, by |-> "released", val |-> NoVal]
Release(n) == [fut EXCEPT ![n] = Released]

\* A subprocess reads its stdin until it is killed or has exited.
Reads(p) == procState[p] \in {"running", "terminating"}

\* stdin.drain() can raise only once the loop has seen the child's pipe closed.
MayRaise(raises) == raises => (process # NoProc /\ procState[process] = "exited")

\* A shutdown() that sent its request has returned, and none is in progress.
ShutdownReturned ==
    /\ \E m \in 1..Len(reqs) : reqs[m].type = "shutdown"
    /\ \A c \in Callers : callers[c].pc \notin {"sd_req_wait", "sd_exit_wait", "sd_term_wait"}

\* The subprocesses spawned so far are 1..Spawned.
Spawned == Cardinality({p \in Procs : procState[p] # "unborn"})

\* asyncio.Lock.acquire() without suspension: the lock is free and no task
\* waits for it (the lock is first come, first served).
LockFree == starting_lock = "free" /\ \A d \in Callers : callers[d].pc # "lock_wait"

\* A variant of start_client() without the lock: a call that finds started
\* unset goes on to _start_internal at once.
CallStartNoLock(c) ==
    /\ Idle(c)
    /\ IF started
       THEN UNCHANGED <<callers, starting_lock>>
       ELSE /\ starting_lock' = c
            /\ callers' = [callers EXCEPT ![c].pc = "spawning",
                                         ![c].after = ShutdownReturned,
                                         ![c].seen = Spawned]
    /\ UNCHANGED <<process, procState, request_seq, reqs, pending, timers, fut,
                   started, exit_future, exitFut, reader_task, readerState, monitor>>

\* A task calls start_client(): it returns when started is set; else it takes
\* the lock if it is free (_start_internal then runs up to
\* create_subprocess_exec), or waits for the lock.
CallStart(c) ==
    /\ Idle(c)
    /\ IF started
       THEN UNCHANGED <<callers, starting_lock>>
       ELSE IF LockFree
            THEN /\ starting_lock' = c
                 /\ callers' = [callers EXCEPT ![c].pc = "spawning",
                                              ![c].after = ShutdownReturned,
                                              ![c].seen = Spawned]
            ELSE /\ starting_lock' = starting_lock
                 /\ callers' = [callers EXCEPT ![c].pc = "lock_wait",
                                              ![c].after = ShutdownReturned,
                                              ![c].seen = Spawned]
    /\ UNCHANGED <<process, procState, request_seq, reqs, pending, timers, fut,
                   started, exit_future, exitFut, reader_task, readerState, monitor>>

\* The lock is handed to a waiting task: `if self._started: return`, else
\* _start_internal.
LockAcquired(c) ==
    /\ callers[c].pc = "lock_wait"
    /\ starting_lock = "free"
    /\ IF started
       THEN /\ callers' = Finish(c)
            /\ UNCHANGED starting_lock
       ELSE /\ starting_lock' = c
            /\ callers' = [callers EXCEPT ![c].pc = "spawning"]
    /\ UNCHANGED <<process, procState, request_seq, reqs, pending, timers, fut,
                   started, exit_future, exitFut, reader_task, readerState, monitor>>

\* _start_internal raises before a subprocess exists: the explicit binary path
\* does not exist, or create_subprocess_exec fails.  The lock is released.
StartFails(c) ==
    /\ callers[c].pc = "spawning"
    /\ starting_lock' = "free"
    /\ callers' = Finish(c)
    /\ UNCHANGED <<process, procState, request_seq, reqs, pending, timers, fut,
                   started, exit_future, exitFut, reader_task, readerState, monitor>>

\* An exit monitor whose process has a return code is about to run: the
\* callback that set the return code has woken it.
MonitorRunnable(p) == monitor[p] = "waiting" /\ procState[p] = "exited"

\* create_subprocess_exec returns: the process, a new exit future, the reader
\* and monitor tasks, and the hello request, up to `await future`.  The spawn
\* takes several turns of the loop, so a monitor woken before has run.
SpawnDone(c) ==
    /\ callers[c].pc = "spawning"
    /\ \A q \in Procs : ~MonitorRunnable(q)
    /\ Spawned < MaxProcs
    /\ request_seq < MaxReq
    /\ LET p == Spawned + 1 IN
       /\ process' = p
       /\ procState' = [procState EXCEPT ![p] = "running"]
       /\ exit_future' = p
       /\ exitFut' = [exitFut EXCEPT ![p] = "pending"]
       /\ reader_task' = p
       /\ readerState' = [readerState EXCEPT ![p] = "running"]
       /\ monitor' = [monitor EXCEPT ![p] = "waiting"]
       /\ SendRequest(p, TRUE, "hello", "hello_ack")
       /\ callers' = [callers EXCEPT ![c].pc = "hello_wait", ![c].f = request_seq + 1,
                                    ![c].seen = 0]
    /\ UNCHANGED <<fut, started, starting_lock>>

\* The task awaiting the hello future resumes: on a hello_ack started is set, on
\* an exception _start_internal raises.  Either way the lock is released.
HelloDone(c) ==
    /\ callers[c].pc = "hello_wait"
    /\ Done(fut[callers[c].f])
    /\ starting_lock' = "free"
    /\ started' = IF fut[callers[c].f].val.kind = "result" THEN TRUE ELSE started
    /\ fut' = Release(callers[c].f)
    /\ callers' = Finish(c)
    /\ UNCHANGED <<process, procState, request_seq, reqs, pending, timers,
                   exit_future, exitFut, reader_task, readerState, monitor>>

\* A task is in a request wrapper (spawn_pty, list_agents, get_status, ...) past
\* `await self.start_client()`, which returns without suspending, or resumes the
\* wrapper, only in a state where started is set.  _request_ok -> _send_request:
\* without a process it raises "broker is not running"; else the request is sent
\* and the task awaits the future, unless drain() raises ConnectionResetError
\* (the pending entry and its timer then stay behind).
CallRequest(c) ==
    /\ Idle(c)
    /\ started
    /\ IF process = NoProc
       THEN UNCHANGED <<callers, request_seq, reqs, pending, timers>>
       ELSE /\ request_seq < MaxReq
            /\ SendRequest(process, Reads(process), "op", "ok")
            /\ \E raises \in BOOLEAN :
                 /\ MayRaise(raises)
                 /\ callers' = IF raises THEN callers
                               ELSE [callers EXCEPT ![c].pc = "await_fut",
                                                    ![c].f = request_seq + 1]
    /\ UNCHANGED <<process, procState, fut, started, starting_lock, exit_future,
                   exitFut, reader_task, readerState, monitor>>

\* The task awaiting a request future resumes with its result or exception.
RequestDone(c) ==
    /\ callers[c].pc = "await_fut"
    /\ Done(fut[callers[c].f])
    /\ fut' = Release(callers[c].f)
    /\ callers' = Finish(c)
    /\ UNCHANGED <<process, procState, request_seq, reqs, pending, timers,
                   started, starting_lock, exit_future, exitFut, reader_task,
                   readerState, monitor>>

----------------------------------------------------------------------------
\* shutdown()

InShutdown(c) == callers[c].pc \in {"sd_req_wait", "sd_exit_wait", "sd_term_wait"}

\* The end of shutdown(): cancel the reader task if it still runs, forget the
\* process, reset started (client.py 559-566).
Cleanup ==
    /\ readerState' = IF reader_task # NoProc /\ readerState[reader_task] = "running"
                      THEN [readerState EXCEPT ![reader_task] = "ended"]
                      ELSE readerState
    /\ process' = NoProc
    /\ started' = FALSE

\* shutdown() from `process = self._process` on: wait_for on the exit future
\* returns at once when that future is already resolved, else the task waits.
AwaitExit(c) ==
    IF exit_future = NoProc \/ exitFut[exit_future] = "resolved"
    THEN /\ Cleanup
         /\ callers' = Finish(c)
    ELSE /\ callers' = [callers EXCEPT ![c] = [IdleCaller EXCEPT !.pc = "sd_exit_wait",
                                                                 !.proc = process,
                                                                 !.exitf = exit_future]]
         /\ UNCHANGED <<readerState, process, started>>

\* A variant of shutdown() that sends its request without looking at
\* self._process first.
CallShutdownUnchecked(c) ==
    /\ Idle(c)
    /\ \A d \in Callers : ~InShutdown(d)
    /\ request_seq < MaxReq
    /\ SendRequest(process, process # NoProc /\ Reads(process), "shutdown", "ok")
    /\ IF process = NoProc
       THEN UNCHANGED <<callers, readerState, process, started>>
       ELSE /\ callers' = [callers EXCEPT ![c].pc = "sd_req_wait",
                                          ![c].f = request_seq + 1]
            /\ UNCHANGED <<readerState, process, started>>
    /\ UNCHANGED <<procState, fut, starting_lock, exit_future, exitFut,
                   reader_task, monitor>>

\* A task calls shutdown(): nothing without a process; else the shutdown
\* request is sent and awaited, and an exception of drain() is swallowed like
\* any other.  One shutdown() runs at a time.
CallShutdown(c) ==
    /\ Idle(c)
    /\ \A d \in Callers : ~InShutdown(d)
    /\ IF process = NoProc
       THEN UNCHANGED <<callers, request_seq, reqs, pending, timers, readerState,
                        process, started>>
       ELSE /\ request_seq < MaxReq
            /\ SendRequest(process, Reads(process), "shutdown", "ok")
            /\ \E raises \in BOOLEAN :
                 /\ MayRaise(raises)
                 /\ IF raises
                    THEN AwaitExit(c)
                    ELSE /\ callers' = [callers EXCEPT ![c].pc = "sd_req_wait",
                                                       ![c].f = request_seq + 1]
                         /\ UNCHANGED <<readerState, process, started>>
    /\ UNCHANGED <<procState, fut, starting_lock, exit_future, exitFut,
                   reader_task, monitor>>

\* The shutdown request completed, whatever its outcome: go on to the exit wait.
ShutdownRequestDone(c) ==
    /\ callers[c].pc = "sd_req_wait"
    /\ Done(fut[callers[c].f])
    /\ fut' = Release(callers[c].f)
    /\ AwaitExit(c)
    /\ UNCHANGED <<procState, request_seq, reqs, pending, timers,
                   starting_lock, exit_future, exitFut, reader_task, monitor>>

\* The exit future was resolved within the shutdown timeout.
ShutdownExitSeen(c) ==
    /\ callers[c].pc = "sd_exit_wait"
    /\ exitFut[callers[c].exitf] = "resolved"
    /\ Cleanup
    /\ callers' = Finish(c)
    /\ UNCHANGED <<procState, request_seq, reqs, pending, timers, fut,
                   starting_lock, exit_future, exitFut, reader_task, monitor>>

\* A variant of the escalation that sends SIGKILL at once when the shutdown
\* timeout expires, and ends.
ShutdownExitTimeoutKill(c) ==
    /\ callers[c].pc = "sd_exit_wait"
    /\ exitFut[callers[c].exitf] = "pending"
    /\ ~MonitorRunnable(callers[c].proc)
    /\ exitFut' = [exitFut EXCEPT ![callers[c].exitf] = "cancelled"]
    /\ procState' = IF procState[callers[c].proc] # "exited"
                    THEN [procState EXCEPT ![callers[c].proc] = "killed"]
                    ELSE procState
    /\ Cleanup
    /\ callers' = Finish(c)
    /\ UNCHANGED <<request_seq, reqs, pending, timers, fut,
                   starting_lock, exit_future, reader_task, monitor>>

\* The shutdown timeout expired first: wait_for cancels the exit future; the
\* process is sent SIGTERM if it has no return code, and awaited for 2 s.  (With
\* a return code its exit monitor, woken before this task, has run.)
ShutdownExitTimeout(c) ==
    /\ callers[c].pc = "sd_exit_wait"
    /\ exitFut[callers[c].exitf] = "pending"
    /\ ~MonitorRunnable(callers[c].proc)
    /\ exitFut' = [exitFut EXCEPT ![callers[c].exitf] = "cancelled"]
    /\ IF procState[callers[c].proc] # "exited"
       THEN /\ procState' = [procState EXCEPT ![callers[c].proc] = "terminating"]
            /\ callers' = [callers EXCEPT ![c].pc = "sd_term_wait"]
            /\ UNCHANGED <<readerState, process, started>>
       ELSE /\ Cleanup
            /\ callers' = Finish(c)
            /\ UNCHANGED procState
    /\ UNCHANGED <<request_seq, reqs, pending, timers, fut,
                   starting_lock, exit_future, reader_task, monitor>>

\* The process exited within 2 s of SIGTERM.  The exit monitor waits on the
\* same process and was registered first, so it has run by now.
ShutdownTermExit(c) ==
    /\ callers[c].pc = "sd_term_wait"
    /\ procState[callers[c].proc] = "exited"
    /\ ~MonitorRunnable(callers[c].proc)
    /\ Cleanup
    /\ callers' = Finish(c)
    /\ UNCHANGED <<procState, request_seq, reqs, pending, timers, fut,
                   starting_lock, exit_future, exitFut, reader_task, monitor>>

\* It did not: SIGKILL, and shutdown() ends without waiting for the exit.
ShutdownTermTimeout(c) ==
    /\ callers[c].pc = "sd_term_wait"
    /\ procState[callers[c].proc] # "exited"
    /\ procState' = [procState EXCEPT ![callers[c].proc] = "killed"]
    /\ Cleanup
    /\ callers' = Finish(c)
    /\ UNCHANGED <<request_seq, reqs, pending, timers, fut,
                   starting_lock, exit_future, exitFut, reader_task, monitor>>

----------------------------------------------------------------------------
\* The broker subprocesses and the loop's callbacks.

ResponseTypes == {"ok", "hello_ack", "error"}

\* The stdout reader of p reads a response line: for a request p has read (in
\* any order, again, or after the request completed), or with no request_id.
\* (The type of a line that matches no pending request changes nothing.)
ReadResponse(p) ==
    /\ readerState[p] = "running"
    /\ \E id \in Received(p) \cup {NoId} :
         \E t \in IF id \in DOMAIN pending THEN ResponseTypes ELSE {"ok"} :
           HandleStdoutLine([type |-> t, request_id |-> id, src |-> p])
    /\ UNCHANGED <<process, procState, request_seq, reqs, started,
                   starting_lock, exit_future, exitFut, reader_task, readerState,
                   monitor, callers>>

\* The subprocess exits: by itself, on the shutdown request, on a signal.
ProcessExits(p) ==
    /\ procState[p] \in {"running", "terminating", "killed"}
    /\ procState' = [procState EXCEPT ![p] = "exited"]
    /\ UNCHANGED <<process, request_seq, reqs, pending, timers, fut,
                   started, starting_lock, exit_future, exitFut, reader_task,
                   readerState, monitor, callers>>

\* The stdout reader of p reads end-of-file and ends.
ReaderEOF(p) ==
    /\ readerState[p] = "running"
    /\ procState[p] = "exited"
    /\ readerState' = [readerState EXCEPT ![p] = "ended"]
    /\ UNCHANGED <<process, procState, request_seq, reqs, pending, timers,
                   fut, started, starting_lock, exit_future, exitFut, reader_task,
                   monitor, callers>>

\* A variant of _monitor_exit that resolves the exit future without failing the
\* pending requests.
MonitorExitNoDrain(p) ==
    /\ monitor[p] = "waiting"
    /\ procState[p] = "exited"
    /\ monitor' = [monitor EXCEPT ![p] = "done"]
    /\ exitFut' = IF exit_future # NoProc /\ exitFut[exit_future] = "pending"
                  THEN [exitFut EXCEPT ![exit_future] = "resolved"]
                  ELSE exitFut
    /\ UNCHANGED <<process, procState, request_seq, reqs, pending, timers, fut,
                   started, starting_lock, exit_future, reader_task, readerState,
                   callers>>

\* _monitor_exit of subprocess p resumes from process.wait(): it fails what is
\* in self._pending and resolves what self._exit_future refers to, unless done.
MonitorExit(p) ==
    /\ monitor[p] = "waiting"
    /\ procState[p] = "exited"
    /\ monitor' = [monitor EXCEPT ![p] = "done"]
    /\ FailAllPending(ProcessError("broker exited", p))
    /\ exitFut' = IF exit_future # NoProc /\ exitFut[exit_future] = "pending"
                  THEN [exitFut EXCEPT ![exit_future] = "resolved"]
                  ELSE exitFut
    /\ UNCHANGED <<process, procState, request_seq, reqs, started,
                   starting_lock, exit_future, reader_task, readerState, callers>>

\* The timer of req_<n> fires.
Timeout(n) ==
    /\ n \in timers
    /\ OnTimeout(n)
    /\ UNCHANGED <<process, procState, request_seq, reqs, started,
                   starting_lock, exit_future, exitFut, reader_task, readerState,
                   monitor, callers>>

----------------------------------------------------------------------------

\* The lifecycle of the client by itself: no event is emitted and no stderr
\* line written.
Next ==
    \/ \E c \in Callers : CallStart(c) /\ UNCHANGED ioVars
    \/ \E c \in Callers : LockAcquired(c) /\ UNCHANGED ioVars
    \/ \E c \in Callers : StartFails(c) /\ UNCHANGED ioVars
    \/ \E c \in Callers : SpawnDone(c) /\ UNCHANGED ioVars
    \/ \E c \in Callers : HelloDone(c) /\ UNCHANGED ioVars
    \/ \E c \in Callers : CallRequest(c) /\ UNCHANGED ioVars
    \/ \E c \in Callers : RequestDone(c) /\ UNCHANGED ioVars
    \/ \E c \in Callers : CallShutdown(c) /\ UNCHANGED ioVars
    \/ \E c \in Callers : ShutdownRequestDone(c) /\ UNCHANGED ioVars
    \/ \E c \in Callers : ShutdownExitSeen(c) /\ UNCHANGED ioVars
    \/ \E c \in Callers : ShutdownExitTimeout(c) /\ UNCHANGED ioVars
    \/ \E c \in Callers : ShutdownTermExit(c) /\ UNCHANGED ioVars
    \/ \E c \in Callers : ShutdownTermTimeout(c) /\ UNCHANGED ioVars
    \/ \E p \in Procs : ReadResponse(p) /\ UNCHANGED ioVars
    \/ \E p \in Procs : ProcessExits(p) /\ UNCHANGED ioVars
    \/ \E p \in Procs : ReaderEOF(p) /\ UNCHANGED ioVars
    \/ \E p \in Procs : MonitorExit(p) /\ UNCHANGED ioVars
    \/ \E n \in ReqIds : Timeout(n) /\ UNCHANGED ioVars

Spec == Init /\ [][Next]_vars

\* What the event loop guarantees: a timer that stays armed fires, a task whose
\* awaited future is done resumes, an exit monitor whose process has exited
\* runs, and the waits of shutdown() end (by their event or their timeout).
Fairness ==
    /\ \A n \in ReqIds : WF_vars(Timeout(n) /\ UNCHANGED ioVars)
    /\ \A p \in Procs : WF_vars(MonitorExit(p) /\ UNCHANGED ioVars)
    /\ \A c \in Callers :
         /\ WF_vars(ShutdownRequestDone(c) /\ UNCHANGED ioVars)
         /\ WF_vars((ShutdownExitSeen(c) \/ ShutdownExitTimeout(c)) /\ UNCHANGED ioVars)
         /\ WF_vars((ShutdownTermExit(c) \/ ShutdownTermTimeout(c)) /\ UNCHANGED ioVars)

FairSpec == Spec /\ Fairness

----------------------------------------------------------------------------
\* Properties of request completion (spec sections on correlation, timeouts
\* and the exit monitor).

\* C1: every request sent completes exactly once.  A request is in the pending
\* table, with its timer armed, exactly as long as its future is not done; no
\* future is ever set a second time (by a late or repeated envelope, by a timer
\* after a response, by the exit drain after either); and a done future was set
\* by exactly one of the envelope with its id, its timeout, the exit drain.
C1_CompletesExactlyOnce ==
    \A n \in ReqIds :
        /\ fut[n].sets <= 1
        /\ (n \in DOMAIN pending) <=> (n <= request_seq /\ ~Done(fut[n]))
        /\ (n \in DOMAIN pending) <=> (n \in timers)
        /\ n \in DOMAIN pending => pending[n].future = n
        /\ Done(fut[n]) => fut[n].by \in {"envelope", "timeout", "drain", "released"}
        /\ n > request_seq => fut[n] = NewFuture

\* Two requests were sent and completed by different completers, one by its
\* envelope and one by its timeout, and nothing is pending.
C1_Witness ==
    /\ pending = EmptyPending
    /\ \E n, m \in 1..request_seq :
         fut[n].by = "envelope" /\ fut[m].by = "timeout"

\* C2: request ids are distinct and strictly increasing (a new pending entry
\* always has the id request_seq + 1, which becomes request_seq, and is the
\* next envelope written), and a response resolves only the request with its
\* id: a future resolved with a response holds the response that carries its
\* own id, sent by the subprocess the request was written to, and the tasks
\* that await requests await different ones.
C2_DistinctIdsNoCrossResolution ==
    /\ [](/\ Len(reqs) = request_seq
          /\ \A n \in DOMAIN pending : n \in 1..request_seq
          /\ \A n \in ReqIds :
               fut[n].val.kind = "result" =>
                   /\ fut[n].val.request_id = n
                   /\ fut[n].val.proc = reqs[n].proc
          /\ \A c, d \in Callers :
               /\ callers[c].f # NoId => callers[c].f \in 1..request_seq
               /\ (c # d /\ callers[c].f # NoId) => callers[c].f # callers[d].f)
    /\ [][/\ request_seq' >= request_seq
          /\ \A n \in (DOMAIN pending') \ (DOMAIN pending) :
               n = request_seq + 1 /\ request_seq' = n /\ Len(reqs') = n]_vars

\* Two requests are in flight and the later one was answered first: req_3 is
\* resolved with its own response while req_2 is still pending.
C2_Witness ==
    /\ 2 \in DOMAIN pending
    /\ fut[3].val.kind = "result" /\ fut[3].val.request_id = 3
    /\ \E c, d \in Callers :
         /\ callers[c].pc = "await_fut" /\ callers[c].f = 2
         /\ callers[d].pc = "await_fut" /\ callers[d].f = 3

\* C3: in the step in which an exit monitor runs, every request pending before
\* the step fails with the same error "broker exited" of that subprocess and
\* the pending table is empty after it; and an exit future is resolved only in
\* such a step, so it is never resolved while a request from before the exit
\* is still pending.
C3_ExitFailsAllPending ==
    [][/\ \A p \in Procs :
            (monitor[p] = "waiting" /\ monitor'[p] = "done") =>
                /\ pending' = EmptyPending
                /\ timers' = {}
                /\ \A n \in DOMAIN pending :
                     fut'[n] = [sets |-> 1, by |-> "drain",
                                val |-> ProcessError("broker exited", p)]
       /\ \A s \in Procs :
            (exitFut[s] # "resolved" /\ exitFut'[s] = "resolved") =>
                /\ pending' = EmptyPending
                /\ \E p \in Procs : monitor[p] = "waiting" /\ monitor'[p] = "done"]_vars

\* A subprocess exited with two requests pending: both failed with the same
\* error, the table is empty and the exit future is resolved.
C3_Witness ==
    /\ pending = EmptyPending
    /\ \E p \in Procs :
         /\ monitor[p] = "done" /\ exitFut[p] = "resolved"
         /\ \E n, m \in ReqIds :
              /\ n # m
              /\ fut[n].by = "drain" /\ fut[m].by = "drain"
              /\ fut[n].val = ProcessError("broker exited", p)
              /\ fut[m].val = fut[n].val

----------------------------------------------------------------------------
\* Properties of the subprocess lifecycle: unexpected exit, shutdown, start.

\* C4: after the subprocess has exited without shutdown() having been called
\* (the exit monitor has run, no shutdown request was ever sent and none is in
\* progress), a request wrapper adds no entry to the pending table: no step
\* writes a request of a wrapper.
C4_FailFastAfterExit ==
    [][(/\ process # NoProc
        /\ procState[process] = "exited"
        /\ monitor[process] = "done"
        /\ \A m \in 1..Len(reqs) : reqs[m].type # "shutdown"
        /\ \A c \in Callers : ~InShutdown(c)
        /\ request_seq' # request_seq)
       => reqs'[request_seq'].type # "op"]_vars

\* C5: in the step in which shutdown() ends (it forgets the process), the
\* pending table is empty and the process it forgets has exited.
C5_ShutdownLeavesNothing ==
    [][(process # NoProc /\ process' = NoProc) =>
           /\ pending' = EmptyPending
           /\ procState'[process] = "exited"]_vars

\* C6: shutdown() escalates in a fixed order and always returns.  Whatever the
\* outcome of its request, the task goes on to the exit wait (or ends at once,
\* the exit future being resolved already); SIGTERM is sent only to a process
\* that is running, by the task whose exit wait ended by its timeout, after a
\* shutdown request was written; SIGKILL is sent only to a process that was
\* sent SIGTERM and has not exited, by the task that waited for it; a
\* shutdown() ends only through the cleanup; and every shutdown() in progress ends.
C6_ShutdownEscalates ==
    /\ [][/\ \A c \in Callers :
               /\ (callers[c].pc = "sd_req_wait" /\ callers'[c].pc # "sd_req_wait") =>
                      /\ Done(fut[callers[c].f])
                      /\ \/ callers'[c].pc = "sd_exit_wait"
                         \/ /\ callers'[c].pc = "idle"
                            /\ exitFut[exit_future] = "resolved"
               /\ (callers[c].pc # "sd_exit_wait" /\ callers'[c].pc = "sd_exit_wait") =>
                      \E m \in 1..Len(reqs') : reqs'[m].type = "shutdown"
               /\ (InShutdown(c) /\ callers'[c].pc = "idle") =>
                      process' = NoProc /\ started' = FALSE
          /\ \A p \in Procs :
               /\ (procState[p] # "terminating" /\ procState'[p] = "terminating") =>
                      /\ procState[p] = "running"
                      /\ \E c \in Callers :
                           /\ callers[c].pc = "sd_exit_wait" /\ callers[c].proc = p
                           /\ exitFut[callers[c].exitf] = "pending"
                           /\ callers'[c].pc = "sd_term_wait"
               /\ (procState[p] # "killed" /\ procState'[p] = "killed") =>
                      /\ procState[p] = "terminating"
                      /\ \E c \in Callers :
                           callers[c].pc = "sd_term_wait" /\ callers[c].proc = p]_vars
    /\ \A c \in Callers : InShutdown(c) ~> Idle(c)

\* A shutdown() went through the whole escalation and returned: the process
\* was killed, the exit future cancelled by the timed-out wait, no task is in
\* shutdown().
C6_Witness ==
    /\ process = NoProc
    /\ \A c \in Callers : Idle(c)
    /\ \E p \in Procs : procState[p] = "killed" /\ exitFut[p] = "cancelled"

\* C7 as stated: concurrent start() calls spawn exactly one subprocess.  When a
\* call spawns a subprocess, no call that ran since it was made has spawned
\* one (shutdown() never having been called).
C7_ConcurrentStartsSpawnOnce ==
    [][\A c \in Callers :
          (/\ callers[c].pc = "spawning" /\ callers'[c].pc = "hello_wait"
           /\ \A m \in 1..Len(reqs) : reqs[m].type # "shutdown")
          => Spawned = callers[c].seen]_vars

\* C7, amended: start() calls are serialized by the lock (at most one task is
\* in _start_internal, and it holds the lock); every spawn sends exactly one
\* hello; no subprocess is spawned while started is set; and started becomes
\* true only in the step of the task whose hello was resolved with the
\* hello_ack of the subprocess the hello was written to.
C7_StartSerialized ==
    /\ [](/\ \A c, d \in Callers :
               (callers[c].pc \in {"spawning", "hello_wait"}
                    /\ callers[d].pc \in {"spawning", "hello_wait"}) => c = d
          /\ \A c \in Callers :
               callers[c].pc \in {"spawning", "hello_wait"} => starting_lock = c
          /\ Cardinality({m \in 1..Len(reqs) : reqs[m].type = "hello"}) = Spawned)
    /\ [][/\ started => Spawned' = Spawned
          /\ (~started /\ started') =>
                \E c \in Callers :
                    /\ callers[c].pc = "hello_wait" /\ callers'[c].pc = "idle"
                    /\ reqs[callers[c].f].type = "hello"
                    /\ fut[callers[c].f].val =
                          [kind |-> "result", msg |-> "hello_ack",
                           proc |-> reqs[callers[c].f].proc,
                           request_id |-> callers[c].f]]_vars

\* Two start() calls are concurrent: one has spawned the subprocess and awaits
\* the hello_ack, which has arrived, the other waits for the lock.
C7_Witness ==
    /\ Spawned = 1
    /\ \E c, d \in Callers :
         /\ callers[c].pc = "hello_wait"
         /\ fut[callers[c].f].val.msg = "hello_ack"
         /\ callers[d].pc = "lock_wait"

\* C8: a start() made after a shutdown() has returned completes its handshake
\* with the subprocess it spawned: its hello is never failed by the exit of
\* another subprocess.
C8_RestartSucceeds ==
    \A c \in Callers :
        (/\ callers[c].pc = "hello_wait"
         /\ callers[c].after
         /\ fut[callers[c].f].by = "drain")
        => fut[callers[c].f].val.proc = reqs[callers[c].f].proc

\* C9: no pending entry leaks.  Every entry has its timer armed and a future
\* that is not done (so the table is empty once every request sent has
\* completed), and every id in the table is eventually removed from it.
C9_NoPendingLeak ==
    /\ [](\A n \in DOMAIN pending : n \in timers /\ ~Done(fut[n]))
    /\ \A n \in ReqIds : (n \in DOMAIN pending) ~> (n \notin DOMAIN pending)

\* Every request the bound allows was sent, one of them was left behind by its
\* caller and removed by its timer, and the table is empty.
C9_Witness ==
    /\ request_seq = MaxReq
    /\ pending = EmptyPending
    /\ \A c \in Callers : Idle(c)
    /\ \E n \in ReqIds : fut[n].by = "timeout"

----------------------------------------------------------------------------
\* Events.  An event is named by its rank in the order the brokers emitted
\* them; the stdout pipe is first-in first-out, so the reader handles the
\* events of a broker in that order.  delivered is the sequence of the listener
\* calls of the last dispatch, each a pair <<listener, event>>.

\* list.remove(x): the list without its first x (unchanged when x is absent).
RECURSIVE RemoveFirst(_, _)
RemoveFirst(list, x) ==
    IF list = <<>> THEN <<>>
    ELSE IF Head(list) = x THEN Tail(list)
    ELSE <<Head(list)>> \o RemoveFirst(Tail(list), x)

\* A variant of the append that, over the cap, drops the event just appended.
AppendEventDropNewest(buffer, event) ==
    LET appended == Append(buffer, event) IN
    IF Len(appended) > max_buffer_size
    THEN SubSeq(appended, 1, Len(appended) - 1)
    ELSE appended

\* self._event_buffer.append(event), then pop(0) when over the cap.
AppendEvent(buffer, event) ==
    LET appended == Append(buffer, event) IN
    IF Len(appended) > max_buffer_size THEN Tail(appended) ELSE appended

\* A variant of the dispatch that calls the listeners last-registered first.
DispatchReversed(listeners, event, r) ==
    LET k == IF r = 0 THEN Len(listeners) ELSE r IN
    [i \in 1..k |-> <<listeners[Len(listeners) + 1 - i], event>>]

\* for listener in self._event_listeners: listener(event).  r is the position
\* of the first listener that raises (0: none does): the listeners up to it
\* are called, the exception ends the loop.
Dispatch(listeners, event, r) ==
    LET k == IF r = 0 THEN Len(listeners) ELSE r IN
    [i \in 1..k |-> <<listeners[i], event>>]

\* The stdout reader of p reads an event envelope (client.py 302-309).  An
\* exception of a listener leaves _handle_stdout_line and _read_stdout: the
\* reader task ends with it.
ReadEvent(p) ==
    /\ readerState[p] = "running"
    /\ nevents < MaxEvents
    /\ nevents' = nevents + 1
    /\ event_buffer' = AppendEvent(event_buffer, nevents + 1)
    /\ \E r \in 0..Len(event_listeners) :
         /\ delivered' = Dispatch(event_listeners, nevents + 1, r)
         /\ readerState' = IF r = 0 THEN readerState
                           ELSE [readerState EXCEPT ![p] = "ended"]
    /\ UNCHANGED <<process, procState, request_seq, reqs, pending, timers, fut,
                   started, starting_lock, exit_future, exitFut, reader_task,
                   monitor, callers, event_listeners>>

\* on_event(listener).
OnEvent(l) ==
    /\ Len(event_listeners) < MaxListeners
    /\ event_listeners' = Append(event_listeners, l)
    /\ UNCHANGED <<lifecycleVars, event_buffer, delivered, nevents>>

\* The unsubscribe returned by on_event(l) is called while l is in the list
\* (when it is not, the call changes nothing).
Unsubscribe(l) ==
    /\ \E i \in 1..Len(event_listeners) : event_listeners[i] = l
    /\ event_listeners' = RemoveFirst(event_listeners, l)
    /\ UNCHANGED <<lifecycleVars, event_buffer, delivered, nevents>>

\* The listener list that on_event(l) on `list`, followed at once by the
\* unsubscribe it returned, leaves (client.py 161-170).
SubscribeThenUnsubscribe(list, l) == RemoveFirst(Append(list, l), l)

\* query_events() without filter and limit.
query_events == event_buffer

otherVars == <<errVars, last_stderr_line, exit_detail, stderrState, facadeVars,
               extraVars>>

\* One caller drives the client while the brokers emit events and listeners
\* come and go.
EventNext ==
    \/ CallStart("a") /\ UNCHANGED ioVars
    \/ StartFails("a") /\ UNCHANGED ioVars
    \/ SpawnDone("a") /\ UNCHANGED ioVars
    \/ HelloDone("a") /\ UNCHANGED ioVars
    \/ CallRequest("a") /\ UNCHANGED ioVars
    \/ RequestDone("a") /\ UNCHANGED ioVars
    \/ CallShutdown("a") /\ UNCHANGED ioVars
    \/ ShutdownRequestDone("a") /\ UNCHANGED ioVars
    \/ ShutdownExitSeen("a") /\ UNCHANGED ioVars
    \/ ShutdownExitTimeout("a") /\ UNCHANGED ioVars
    \/ ShutdownTermExit("a") /\ UNCHANGED ioVars
    \/ ShutdownTermTimeout("a") /\ UNCHANGED ioVars
    \/ \E p \in Procs : ReadResponse(p) /\ UNCHANGED ioVars
    \/ \E p \in Procs : ProcessExits(p) /\ UNCHANGED ioVars
    \/ \E p \in Procs : ReaderEOF(p) /\ UNCHANGED ioVars
    \/ \E p \in Procs : MonitorExit(p) /\ UNCHANGED ioVars
    \/ \E n \in ReqIds : Timeout(n) /\ UNCHANGED ioVars
    \/ \E p \in Procs : ReadEvent(p) /\ UNCHANGED otherVars
    \/ \E l \in Listeners : OnEvent(l) /\ UNCHANGED otherVars
    \/ \E l \in Listeners : Unsubscribe(l) /\ UNCHANGED otherVars

EventSpec == Init /\ [][EventNext]_vars

----------------------------------------------------------------------------
\* Stderr.  A line is named by the subprocess that wrote it and its rank among
\* the lines of that subprocess; blank tells whether it is empty once stripped.
\* errPipe[p] holds the lines p wrote that the stderr reader has not read yet,
\* errWritten[p] all the lines p wrote, errDelivered[l] the lines listener l
\* was called with, exit_detail[p] the line the exit monitor of p put into its
\* error message.

StderrLine(p, n, blank) == [proc |-> p, n |-> n, blank |-> blank]

\* What the lifecycle does to the stderr side: _start_internal forgets the last
\* stderr line before it spawns (client.py 230) and creates the stderr task
\* with the stdout reader (245-246); the end of shutdown() cancels the stderr
\* task if it still runs (562-563).
LifecycleStderr ==
    /\ last_stderr_line' =
          IF \E c \in Callers : callers[c].pc # "spawning" /\ callers'[c].pc = "spawning"
          THEN NoLine ELSE last_stderr_line
    /\ stderrState' =
          [p \in Procs |->
             IF procState[p] = "unborn" /\ procState'[p] # "unborn" THEN "running"
             ELSE IF /\ process # NoProc /\ process' = NoProc
                     /\ reader_task = p /\ stderrState[p] = "running" THEN "ended"
             ELSE stderrState[p]]
    /\ UNCHANGED <<eventVars, errVars, exit_detail, facadeVars, extraVars>>

\* process.wait() returns once the child has exited and its pipes are
\* disconnected, and the event loop runs its callbacks in the order they were
\* scheduled: the stderr task, woken by the data and the end-of-file of the
\* pipe, has read every line by the time the exit monitor resumes (unless it
\* was cancelled before).
StderrDrained(p) == stderrState[p] = "running" => errPipe[p] = <<>>

\* _monitor_exit of p builds its message from self._last_stderr_line
\* (client.py 259-260) and fails the pending requests with it.
MonitorExitDetail(p) ==
    /\ StderrDrained(p)
    /\ MonitorExit(p)
    /\ exit_detail' = [exit_detail EXCEPT ![p] = last_stderr_line]
    /\ UNCHANGED <<eventVars, errVars, last_stderr_line, stderrState, facadeVars, extraVars>>

\* The stderr lines written so far.
LinesWritten == UNION {{errWritten[p][i] : i \in 1..Len(errWritten[p])} : p \in Procs}

\* Subprocess p writes a line to its stderr.
WriteStderr(p) ==
    /\ procState[p] \in {"running", "terminating", "killed"}
    /\ Cardinality(LinesWritten) < MaxLines
    /\ \E blank \in BOOLEAN :
         LET line == StderrLine(p, Len(errWritten[p]) + 1, blank) IN
         /\ errWritten' = [errWritten EXCEPT ![p] = Append(@, line)]
         /\ errPipe' = [errPipe EXCEPT ![p] = Append(@, line)]
    /\ UNCHANGED <<lifecycleVars, eventVars, stderr_listeners, errDelivered,
                   last_stderr_line, exit_detail, stderrState, facadeVars, extraVars>>

\* The stderr task of p reads a line (client.py 275-286): a line that is not
\* empty once stripped becomes the last stderr line; every line, empty or
\* not, goes to the listeners (which are registered once each and return).
ReadStderr(p) ==
    /\ stderrState[p] = "running"
    /\ errPipe[p] # <<>>
    /\ errPipe' = [errPipe EXCEPT ![p] = Tail(@)]
    /\ last_stderr_line' = IF Head(errPipe[p]).blank THEN last_stderr_line
                           ELSE Head(errPipe[p])
    /\ errDelivered' = [l \in StderrListeners |->
                          IF \E i \in 1..Len(stderr_listeners) : stderr_listeners[i] = l
                          THEN Append(errDelivered[l], Head(errPipe[p]))
                          ELSE errDelivered[l]]
    /\ UNCHANGED <<lifecycleVars, eventVars, errWritten, stderr_listeners,
                   exit_detail, stderrState, facadeVars, extraVars>>

\* on_broker_stderr(listener), for a listener not yet registered.
OnBrokerStderr(l) ==
    /\ Len(stderr_listeners) < MaxListeners
    /\ \A i \in 1..Len(stderr_listeners) : stderr_listeners[i] # l
    /\ stderr_listeners' = Append(stderr_listeners, l)
    /\ UNCHANGED <<lifecycleVars, eventVars, errPipe, errWritten, errDelivered,
                   last_stderr_line, exit_detail, stderrState, facadeVars, extraVars>>

\* One caller drives the client while the brokers write to their stderr.
StderrNext ==
    \/ CallStart("a") /\ LifecycleStderr
    \/ StartFails("a") /\ LifecycleStderr
    \/ SpawnDone("a") /\ LifecycleStderr
    \/ HelloDone("a") /\ LifecycleStderr
    \/ CallRequest("a") /\ LifecycleStderr
    \/ RequestDone("a") /\ LifecycleStderr
    \/ CallShutdown("a") /\ LifecycleStderr
    \/ ShutdownRequestDone("a") /\ LifecycleStderr
    \/ ShutdownExitSeen("a") /\ LifecycleStderr
    \/ ShutdownExitTimeout("a") /\ LifecycleStderr
    \/ ShutdownTermExit("a") /\ LifecycleStderr
    \/ ShutdownTermTimeout("a") /\ LifecycleStderr
    \/ \E p \in Procs : ReadResponse(p) /\ LifecycleStderr
    \/ \E p \in Procs : ProcessExits(p) /\ LifecycleStderr
    \/ \E p \in Procs : ReaderEOF(p) /\ LifecycleStderr
    \/ \E n \in ReqIds : Timeout(n) /\ LifecycleStderr
    \/ \E p \in Procs : MonitorExitDetail(p)
    \/ \E p \in Procs : WriteStderr(p)
    \/ \E p \in Procs : ReadStderr(p)
    \/ \E l \in StderrListeners : OnBrokerStderr(l)

StderrSpec == Init /\ [][StderrNext]_vars

----------------------------------------------------------------------------
\* The relay facade (relay.py).  Its listener is the first of the client's
\* event listeners; wait_for_agent_ready and wait_for_agent_message add a
\* listener of their own for the time of the call, which the dispatch calls
\* after the facade's.  A wait whose future is resolved returns that outcome.
\* The hooks return normally.

\* Agent.status (relay.py 87-95), from the membership in the sets.
StatusIn(n, exited, idle, ready) ==
    IF n \in exited THEN "exited"
    ELSE IF n \in idle THEN "idle"
    ELSE IF n \in ready THEN "ready"
    ELSE "spawning"

Status(n) == StatusIn(n, exited_agents, idle_agents, ready_agents)

\* AgentRelay.spawn and AgentSpawner.spawn resume from the broker's response:
\* the name leaves the four sets and gets a new handle.
Spawn(n) ==
    /\ known_agents' = known_agents \cup {n}
    /\ ready_agents' = ready_agents \ {n}
    /\ message_ready_agents' = message_ready_agents \ {n}
    /\ exited_agents' = exited_agents \ {n}
    /\ idle_agents' = idle_agents \ {n}
    /\ UNCHANGED <<output_listeners, exit_resolvers, idle_resolvers, waitVars>>

\* Agent.on_output(callback) on a handle of n.
OnOutput(n) ==
    /\ n \in known_agents
    /\ output_listeners' = output_listeners \cup {n}
    /\ UNCHANGED <<known_agents, stateSets, exit_resolvers, idle_resolvers, waitVars>>

\* relay_inbound with from = n: the facade's listener (relay.py 639-652), then
\* the listener of a wait_for_agent_message(n) in progress (551-557).
RelayInbound(n) ==
    LET awaited == messageWait[n] = "waiting"
        marks == n \in known_agents \/ awaited IN
    /\ message_ready_agents' = IF marks THEN message_ready_agents \cup {n}
                               ELSE message_ready_agents
    /\ exited_agents' = IF marks THEN exited_agents \ {n} ELSE exited_agents
    /\ known_agents' = IF awaited THEN known_agents \cup {n} ELSE known_agents
    /\ messageWait' = IF awaited THEN [messageWait EXCEPT ![n] = "resolved"]
                      ELSE messageWait
    /\ UNCHANGED <<ready_agents, idle_agents, output_listeners, exit_resolvers,
                   idle_resolvers, readyWait, exitWait, idleWait, nwaits>>

\* agent_spawned for n (relay.py 654-661).
AgentSpawned(n) ==
    /\ known_agents' = known_agents \cup {n}
    /\ ready_agents' = ready_agents \ {n}
    /\ message_ready_agents' = message_ready_agents \ {n}
    /\ exited_agents' = exited_agents \ {n}
    /\ idle_agents' = idle_agents \ {n}
    /\ UNCHANGED <<output_listeners, exit_resolvers, idle_resolvers, waitVars>>

\* A variant of the two handlers below that keeps the handle of the agent.
AgentGoneKeepHandle(n, outcome) ==
    /\ exited_agents' = exited_agents \cup {n}
    /\ ready_agents' = ready_agents \ {n}
    /\ message_ready_agents' = message_ready_agents \ {n}
    /\ idle_agents' = idle_agents \ {n}
    /\ known_agents' = known_agents \cup {n}
    /\ output_listeners' = output_listeners \ {n}
    /\ exit_resolvers' = exit_resolvers \ {n}
    /\ exitWait' = IF n \in exit_resolvers /\ exitWait[n] = "waiting"
                   THEN [exitWait EXCEPT ![n] = outcome] ELSE exitWait
    /\ idle_resolvers' = idle_resolvers \ {n}
    /\ idleWait' = IF n \in idle_resolvers /\ idleWait[n] = "waiting"
                   THEN [idleWait EXCEPT ![n] = "exited"] ELSE idleWait

\* What agent_released and agent_exited have in common (relay.py 663-697):
\* the name enters exited and leaves the other sets, the handle and the output
\* listeners are dropped, the exit resolver is popped and resolved with the
\* outcome, the idle resolver is popped and resolved with "exited".
AgentGone(n, outcome) ==
    /\ exited_agents' = exited_agents \cup {n}
    /\ ready_agents' = ready_agents \ {n}
    /\ message_ready_agents' = message_ready_agents \ {n}
    /\ idle_agents' = idle_agents \ {n}
    /\ known_agents' = known_agents \ {n}
    /\ output_listeners' = output_listeners \ {n}
    /\ exit_resolvers' = exit_resolvers \ {n}
    /\ exitWait' = IF n \in exit_resolvers /\ exitWait[n] = "waiting"
                   THEN [exitWait EXCEPT ![n] = outcome] ELSE exitWait
    /\ idle_resolvers' = idle_resolvers \ {n}
    /\ idleWait' = IF n \in idle_resolvers /\ idleWait[n] = "waiting"
                   THEN [idleWait EXCEPT ![n] = "exited"] ELSE idleWait

\* agent_released for n (relay.py 663-678).
AgentReleased(n) ==
    /\ AgentGone(n, "released")
    /\ UNCHANGED <<readyWait, messageWait, nwaits>>

\* A variant of agent_exited that leaves a wait_for_agent_message waiting.
AgentExitedSilent(n) ==
    /\ AgentGone(n, "exited")
    /\ UNCHANGED <<readyWait, messageWait, nwaits>>

\* agent_exited for n (relay.py 680-697), then the listener of a
\* wait_for_agent_message(n) in progress, which fails its future (558-561).
AgentExited(n) ==
    /\ AgentGone(n, "exited")
    /\ messageWait' = IF messageWait[n] = "waiting"
                      THEN [messageWait EXCEPT ![n] = "exited_error"]
                      ELSE messageWait
    /\ UNCHANGED <<readyWait, nwaits>>

\* agent_exit for n (relay.py 699-703): the handle is looked up or created.
AgentExit(n) ==
    /\ known_agents' = known_agents \cup {n}
    /\ UNCHANGED <<stateSets, output_listeners, exit_resolvers, idle_resolvers,
                   waitVars>>

\* A variant of worker_ready that leaves the name in idle.
WorkerReadyKeepIdle(n) ==
    /\ known_agents' = known_agents \cup {n}
    /\ ready_agents' = ready_agents \cup {n}
    /\ exited_agents' = exited_agents \ {n}
    /\ readyWait' = IF readyWait[n] = "waiting"
                    THEN [readyWait EXCEPT ![n] = "resolved"] ELSE readyWait
    /\ UNCHANGED <<message_ready_agents, idle_agents, output_listeners,
                   exit_resolvers, idle_resolvers, messageWait, exitWait, idleWait,
                   nwaits>>

\* worker_ready for n (relay.py 705-711), then the listener of a
\* wait_for_agent_ready(n) in progress, which resolves its future (520-527).
WorkerReady(n) ==
    /\ known_agents' = known_agents \cup {n}
    /\ ready_agents' = ready_agents \cup {n}
    /\ exited_agents' = exited_agents \ {n}
    /\ idle_agents' = idle_agents \ {n}
    /\ readyWait' = IF readyWait[n] = "waiting"
                    THEN [readyWait EXCEPT ![n] = "resolved"] ELSE readyWait
    /\ UNCHANGED <<message_ready_agents, output_listeners, exit_resolvers,
                   idle_resolvers, messageWait, exitWait, idleWait, nwaits>>

\* A variant of worker_stream that also takes the name out of ready.
WorkerStreamDropReady(n) ==
    /\ idle_agents' = idle_agents \ {n}
    /\ ready_agents' = ready_agents \ {n}
    /\ UNCHANGED <<known_agents, message_ready_agents, exited_agents,
                   output_listeners, exit_resolvers, idle_resolvers, waitVars>>

\* worker_stream for n (relay.py 713-724).
WorkerStream(n) ==
    /\ idle_agents' = idle_agents \ {n}
    /\ UNCHANGED <<known_agents, ready_agents, message_ready_agents, exited_agents,
                   output_listeners, exit_resolvers, idle_resolvers, waitVars>>

\* A variant of agent_idle that resolves the idle wait with "exited".
AgentIdleAsExited(n) ==
    /\ idle_agents' = idle_agents \cup {n}
    /\ idle_resolvers' = idle_resolvers \ {n}
    /\ idleWait' = IF n \in idle_resolvers /\ idleWait[n] = "waiting"
                   THEN [idleWait EXCEPT ![n] = "exited"] ELSE idleWait
    /\ UNCHANGED <<known_agents, ready_agents, message_ready_agents, exited_agents,
                   output_listeners, exit_resolvers, readyWait, messageWait,
                   exitWait, nwaits>>

\* agent_idle for n (relay.py 726-735).
AgentIdle(n) ==
    /\ idle_agents' = idle_agents \cup {n}
    /\ idle_resolvers' = idle_resolvers \ {n}
    /\ idleWait' = IF n \in idle_resolvers /\ idleWait[n] = "waiting"
                   THEN [idleWait EXCEPT ![n] = "idle"] ELSE idleWait
    /\ UNCHANGED <<known_agents, ready_agents, message_ready_agents, exited_agents,
                   output_listeners, exit_resolvers, readyWait, messageWait,
                   exitWait, nwaits>>

\* wait_for_agent_ready(n) is called (relay.py 512-533): it returns the handle
\* at once when there is one and n is in ready, else it subscribes and waits.
WaitForAgentReady(n) ==
    /\ nwaits < MaxWaits
    /\ readyWait[n] # "waiting"
    /\ nwaits' = nwaits + 1
    /\ readyWait' = [readyWait EXCEPT ![n] =
                        IF n \in known_agents /\ n \in ready_agents
                        THEN "returned" ELSE "waiting"]
    /\ UNCHANGED <<known_agents, stateSets, output_listeners, exit_resolvers,
                   idle_resolvers, messageWait, exitWait, idleWait>>

\* The timeout of wait_for_agent_ready(n) expires: TimeoutError (534-539).
WaitForAgentReadyTimeout(n) ==
    /\ readyWait[n] = "waiting"
    /\ readyWait' = [readyWait EXCEPT ![n] = "timeout"]
    /\ UNCHANGED <<known_agents, stateSets, output_listeners, exit_resolvers,
                   idle_resolvers, messageWait, exitWait, idleWait, nwaits>>

\* wait_for_agent_message(n) is called (relay.py 543-567).
WaitForAgentMessage(n) ==
    /\ nwaits < MaxWaits
    /\ messageWait[n] # "waiting"
    /\ nwaits' = nwaits + 1
    /\ messageWait' = [messageWait EXCEPT ![n] =
                          IF n \in known_agents /\ n \in message_ready_agents
                          THEN "returned" ELSE "waiting"]
    /\ UNCHANGED <<known_agents, stateSets, output_listeners, exit_resolvers,
                   idle_resolvers, readyWait, exitWait, idleWait>>

\* The timeout of wait_for_agent_message(n) expires: TimeoutError (568-572).
WaitForAgentMessageTimeout(n) ==
    /\ messageWait[n] = "waiting"
    /\ messageWait' = [messageWait EXCEPT ![n] = "timeout"]
    /\ UNCHANGED <<known_agents, stateSets, output_listeners, exit_resolvers,
                   idle_resolvers, readyWait, exitWait, idleWait, nwaits>>

\* The timeout_ms a wait is called with: 0, or a later time (1 stands for any
\* positive number of milliseconds and for None, where the timer never fires).
TimeoutMs == {0, 1}

\* Agent.wait_for_exit on a handle of n (relay.py 104-121): "exited" at once
\* when n has no handle, "timeout" at once when timeout_ms is 0, else a new
\* future is installed as the exit resolver of n and awaited.
WaitForExit(n) ==
    /\ nwaits < MaxWaits
    /\ exitWait[n] # "waiting"
    /\ nwaits' = nwaits + 1
    /\ \E timeout_ms \in TimeoutMs :
         IF n \notin known_agents
         THEN /\ exitWait' = [exitWait EXCEPT ![n] = "exited"]
              /\ UNCHANGED exit_resolvers
         ELSE IF timeout_ms = 0
         THEN /\ exitWait' = [exitWait EXCEPT ![n] = "timeout"]
              /\ UNCHANGED exit_resolvers
         ELSE /\ exitWait' = [exitWait EXCEPT ![n] = "waiting"]
              /\ exit_resolvers' = exit_resolvers \cup {n}
    /\ UNCHANGED <<known_agents, stateSets, output_listeners, idle_resolvers,
                   readyWait, messageWait, idleWait>>

\* A variant of the timeout below that leaves the resolver installed.
WaitForExitTimeoutKeep(n) ==
    /\ exitWait[n] = "waiting"
    /\ exitWait' = [exitWait EXCEPT ![n] = "timeout"]
    /\ UNCHANGED <<known_agents, stateSets, output_listeners, exit_resolvers,
                   idle_resolvers, readyWait, messageWait, idleWait, nwaits>>

\* The timeout of wait_for_exit expires: the resolver is popped (118-120).
WaitForExitTimeout(n) ==
    /\ exitWait[n] = "waiting"
    /\ exitWait' = [exitWait EXCEPT ![n] = "timeout"]
    /\ exit_resolvers' = exit_resolvers \ {n}
    /\ UNCHANGED <<known_agents, stateSets, output_listeners, idle_resolvers,
                   readyWait, messageWait, idleWait, nwaits>>

\* Agent.wait_for_idle on a handle of n (relay.py 123-140): "exited" at once
\* when n has no handle, "timeout" at once when timeout_ms is 0, else a new
\* future is installed as the idle resolver of n and awaited.
WaitForIdle(n) ==
    /\ nwaits < MaxWaits
    /\ idleWait[n] # "waiting"
    /\ nwaits' = nwaits + 1
    /\ \E timeout_ms \in TimeoutMs :
         IF n \notin known_agents
         THEN /\ idleWait' = [idleWait EXCEPT ![n] = "exited"]
              /\ UNCHANGED idle_resolvers
         ELSE IF timeout_ms = 0
         THEN /\ idleWait' = [idleWait EXCEPT ![n] = "timeout"]
              /\ UNCHANGED idle_resolvers
         ELSE /\ idleWait' = [idleWait EXCEPT ![n] = "waiting"]
              /\ idle_resolvers' = idle_resolvers \cup {n}
    /\ UNCHANGED <<known_agents, stateSets, output_listeners, exit_resolvers,
                   readyWait, messageWait, exitWait>>

\* The timeout of wait_for_idle expires: the resolver is popped (137-139).
WaitForIdleTimeout(n) ==
    /\ idleWait[n] = "waiting"
    /\ idleWait' = [idleWait EXCEPT ![n] = "timeout"]
    /\ idle_resolvers' = idle_resolvers \ {n}
    /\ UNCHANGED <<known_agents, stateSets, output_listeners, exit_resolvers,
                   readyWait, messageWait, exitWait, nwaits>>

\* The client below the facade: started, and left alone here.
clientVars == <<lifecycleVars, eventVars, errVars, last_stderr_line, exit_detail,
                stderrState>>

\* The facade of a started client: the broker's events in any order, spawns,
\* output subscriptions and waits.
FacadeNext ==
    \/ \E n \in Names : Spawn(n) /\ UNCHANGED <<clientVars, extraVars>>
    \/ \E n \in Names : OnOutput(n) /\ UNCHANGED <<clientVars, extraVars>>
    \/ \E n \in Names : RelayInbound(n) /\ UNCHANGED <<clientVars, extraVars>>
    \/ \E n \in Names : AgentSpawned(n) /\ UNCHANGED <<clientVars, extraVars>>
    \/ \E n \in Names : AgentReleased(n) /\ UNCHANGED <<clientVars, extraVars>>
    \/ \E n \in Names : AgentExited(n) /\ UNCHANGED <<clientVars, extraVars>>
    \/ \E n \in Names : AgentExit(n) /\ UNCHANGED <<clientVars, extraVars>>
    \/ \E n \in Names : WorkerReady(n) /\ UNCHANGED <<clientVars, extraVars>>
    \/ \E n \in Names : WorkerStream(n) /\ UNCHANGED <<clientVars, extraVars>>
    \/ \E n \in Names : AgentIdle(n) /\ UNCHANGED <<clientVars, extraVars>>
    \/ \E n \in Names : WaitForAgentReady(n) /\ UNCHANGED <<clientVars, extraVars>>
    \/ \E n \in Names : WaitForAgentReadyTimeout(n) /\ UNCHANGED <<clientVars, extraVars>>
    \/ \E n \in Names : WaitForAgentMessage(n) /\ UNCHANGED <<clientVars, extraVars>>
    \/ \E n \in Names : WaitForAgentMessageTimeout(n) /\ UNCHANGED <<clientVars, extraVars>>
    \/ \E n \in Names : WaitForExit(n) /\ UNCHANGED <<clientVars, extraVars>>
    \/ \E n \in Names : WaitForExitTimeout(n) /\ UNCHANGED <<clientVars, extraVars>>
    \/ \E n \in Names : WaitForIdle(n) /\ UNCHANGED <<clientVars, extraVars>>
    \/ \E n \in Names : WaitForIdleTimeout(n) /\ UNCHANGED <<clientVars, extraVars>>

FacadeSpec == Init /\ [][FacadeNext]_vars

----------------------------------------------------------------------------
\* AgentRelay.wait_for_any (relay.py 576-594): one task per agent, each running
\* wait_for_exit on its handle; asyncio.wait returns when a task is done, the
\* tasks still pending are cancelled and done.pop() gives the result.

\* The lists wait_for_any is called with: each name at most once.
AgentLists == {<<>>, <<"A">>, <<"B">>, <<"A", "B">>, <<"B", "A">>}

\* The names in a list.
Range(list) == {list[i] : i \in 1..Len(list)}

\* The names of a list for which wait_for_exit returns at once: "exited"
\* without a handle, "timeout" with timeout_ms = 0 (relay.py 106-109).
AtOnce(list, timeout_ms) ==
    SelectSeq(list, LAMBDA n : n \notin known_agents \/ timeout_ms = 0)

\* What wait_for_exit returns at once for n.
OutcomeAtOnce(n) == IF n \notin known_agents THEN "exited" ELSE "timeout"

\* wait_for_any(agents, timeout_ms) is called and its tasks start, in the order
\* of the list: each returns at once or installs its future as the exit
\* resolver of its name.  An empty list raises ValueError.
WaitForAny(agents) ==
    /\ anyState = "none"
    /\ nwaits < MaxWaits
    /\ \A n \in Range(agents) : exitWait[n] # "waiting"
    /\ nwaits' = nwaits + 1
    /\ anyAgents' = agents
    /\ IF agents = <<>>
       THEN /\ anyState' = "error"
            /\ UNCHANGED <<anyExit, anyOrder, exit_resolvers>>
       ELSE \E timeout_ms \in TimeoutMs :
            LET now == AtOnce(agents, timeout_ms) IN
            /\ anyState' = "waiting"
            /\ anyExit' = [n \in Names |->
                              IF n \notin Range(agents) THEN anyExit[n]
                              ELSE IF n \in Range(now) THEN OutcomeAtOnce(n)
                              ELSE "waiting"]
            /\ anyOrder' = [i \in 1..Len(now) |-> <<now[i], OutcomeAtOnce(now[i])>>]
            /\ exit_resolvers' = exit_resolvers \cup (Range(agents) \ Range(now))
    /\ UNCHANGED <<known_agents, stateSets, output_listeners, idle_resolvers,
                   readyWait, messageWait, exitWait, idleWait, anyResult>>

\* agent_exited or agent_released for n resolves the future of the task of n
\* when that future is the installed resolver (relay.py 672-674, 691-693).
AnyResolved(n, outcome) ==
    IF n \in exit_resolvers /\ anyExit[n] = "waiting"
    THEN /\ anyExit' = [anyExit EXCEPT ![n] = outcome]
         /\ anyOrder' = Append(anyOrder, <<n, outcome>>)
         /\ UNCHANGED <<anyAgents, anyState, anyResult>>
    ELSE UNCHANGED anyVars

\* The timeout of the wait_for_exit of the task of n expires (relay.py 116-119).
WaitForAnyTimeout(n) ==
    /\ anyExit[n] = "waiting"
    /\ anyExit' = [anyExit EXCEPT ![n] = "timeout"]
    /\ anyOrder' = Append(anyOrder, <<n, "timeout">>)
    /\ exit_resolvers' = exit_resolvers \ {n}
    /\ UNCHANGED <<known_agents, stateSets, output_listeners, idle_resolvers,
                   waitVars, anyAgents, anyState, anyResult>>

\* The tasks of wait_for_any that are done.
AnyDone == {n \in Range(anyAgents) : anyExit[n] \notin {"none", "waiting"}}

\* wait_for_any resumes (relay.py 588-594): asyncio.wait gives the set of the
\* tasks that are done by now, the others are cancelled (their futures stay in
\* _exit_resolvers), and done.pop() picks one task of the set.
WaitForAnyReturns ==
    /\ anyState = "waiting"
    /\ AnyDone # {}
    /\ \E n \in AnyDone : anyResult' = <<n, anyExit[n]>>
    /\ anyState' = "returned"
    /\ anyExit' = [n \in Names |-> IF anyExit[n] = "waiting" THEN "cancelled"
                                    ELSE anyExit[n]]
    /\ UNCHANGED <<known_agents, stateSets, output_listeners, exit_resolvers,
                   idle_resolvers, waitVars, anyAgents, anyOrder>>

\* wait_for_any beside the exits of the agents and the waits on single handles.
AnyNext ==
    \/ \E n \in Names : Spawn(n) /\ UNCHANGED <<clientVars, extraVars>>
    \/ \E n \in Names : AgentReleased(n) /\ AnyResolved(n, "released")
                            /\ UNCHANGED <<clientVars, relayVars, argVars, runVars, moreVars>>
    \/ \E n \in Names : AgentExited(n) /\ AnyResolved(n, "exited")
                            /\ UNCHANGED <<clientVars, relayVars, argVars, runVars, moreVars>>
    \/ \E n \in Names : anyExit[n] # "waiting" /\ WaitForExit(n)
                            /\ UNCHANGED <<clientVars, extraVars>>
    \/ \E n \in Names : WaitForExitTimeout(n) /\ UNCHANGED <<clientVars, extraVars>>
    \/ \E agents \in AgentLists : WaitForAny(agents) /\ UNCHANGED <<clientVars, relayVars, argVars, runVars, moreVars>>
    \/ \E n \in Names : WaitForAnyTimeout(n) /\ UNCHANGED <<clientVars, relayVars, argVars, runVars, moreVars>>
    \/ WaitForAnyReturns /\ UNCHANGED <<clientVars, relayVars, argVars, runVars, moreVars>>

AnySpec == Init /\ [][AnyNext]_vars

----------------------------------------------------------------------------
\* The lifecycle of the facade: _ensure_started (relay.py 386-410) and
\* shutdown (598-620).

\* _ensure_started creates and starts a client and wires the facade's listener
\* to it, on the first call that needs the broker and again after a shutdown.
EnsureStarted ==
    /\ relayState \in {"new", "stopped"}
    /\ relayState' = "started"
    /\ wired' = TRUE
    /\ UNCHANGED <<facadeVars, anyVars>>

\* A variant of the end of shutdown() that leaves the output listeners.
ShutdownClearsKeepOutput ==
    /\ known_agents' = {}
    /\ ready_agents' = {}
    /\ message_ready_agents' = {}
    /\ exited_agents' = {}
    /\ idle_agents' = {}
    /\ UNCHANGED output_listeners
    /\ exitWait' = [n \in Names |->
                      IF n \in exit_resolvers /\ exitWait[n] = "waiting"
                      THEN "released" ELSE exitWait[n]]
    /\ exit_resolvers' = {}
    /\ idleWait' = [n \in Names |->
                      IF n \in idle_resolvers /\ idleWait[n] = "waiting"
                      THEN "exited" ELSE idleWait[n]]
    /\ idle_resolvers' = {}

\* The end of shutdown() (relay.py 607-620), which runs without suspension:
\* the registry, the four sets and the output listeners are cleared, every
\* exit resolver that is not done is resolved with "released", every idle
\* resolver with "exited", and both tables are cleared.
ShutdownClears ==
    /\ known_agents' = {}
    /\ ready_agents' = {}
    /\ message_ready_agents' = {}
    /\ exited_agents' = {}
    /\ idle_agents' = {}
    /\ output_listeners' = {}
    /\ exitWait' = [n \in Names |->
                      IF n \in exit_resolvers /\ exitWait[n] = "waiting"
                      THEN "released" ELSE exitWait[n]]
    /\ exit_resolvers' = {}
    /\ idleWait' = [n \in Names |->
                      IF n \in idle_resolvers /\ idleWait[n] = "waiting"
                      THEN "exited" ELSE idleWait[n]]
    /\ idle_resolvers' = {}

\* shutdown() on a started facade (relay.py 599-604): the facade's listener is
\* unsubscribed, then the client's shutdown is awaited.
RelayShutdown ==
    /\ relayState = "started"
    /\ relayState' = "stopping"
    /\ wired' = FALSE
    /\ UNCHANGED <<facadeVars, anyVars>>

\* The client's shutdown has returned: self._client = None and the end of
\* shutdown() (relay.py 605-620).
RelayShutdownDone ==
    /\ relayState = "stopping"
    /\ relayState' = "stopped"
    /\ ShutdownClears
    /\ UNCHANGED <<readyWait, messageWait, nwaits, anyVars, wired>>

\* shutdown() on a facade without a client, never started or shut down
\* before: nothing is awaited (relay.py 599-603), the end runs at once.
RelayShutdownNoClient ==
    /\ relayState \in {"new", "stopped"}
    /\ relayState' = "stopped"
    /\ ShutdownClears
    /\ UNCHANGED <<readyWait, messageWait, nwaits, anyVars, wired>>

\* While shutdown() awaits the client, the events the broker still emits reach
\* only the listeners of the waits in progress.  worker_ready for n with a
\* wait_for_agent_ready(n) in progress (relay.py 520-527).
WorkerReadyUnwired(n) ==
    /\ readyWait[n] = "waiting"
    /\ known_agents' = known_agents \cup {n}
    /\ ready_agents' = ready_agents \cup {n}
    /\ exited_agents' = exited_agents \ {n}
    /\ readyWait' = [readyWait EXCEPT ![n] = "resolved"]
    /\ UNCHANGED <<message_ready_agents, idle_agents, output_listeners,
                   exit_resolvers, idle_resolvers, messageWait, exitWait, idleWait,
                   nwaits>>

\* relay_inbound from n with a wait_for_agent_message(n) in progress (551-557).
RelayInboundUnwired(n) ==
    /\ messageWait[n] = "waiting"
    /\ known_agents' = known_agents \cup {n}
    /\ message_ready_agents' = message_ready_agents \cup {n}
    /\ exited_agents' = exited_agents \ {n}
    /\ messageWait' = [messageWait EXCEPT ![n] = "resolved"]
    /\ UNCHANGED <<ready_agents, idle_agents, output_listeners, exit_resolvers,
                   idle_resolvers, readyWait, exitWait, idleWait, nwaits>>

\* agent_exited for n with a wait_for_agent_message(n) in progress (558-561).
AgentExitedUnwired(n) ==
    /\ messageWait[n] = "waiting"
    /\ messageWait' = [messageWait EXCEPT ![n] = "exited_error"]
    /\ UNCHANGED <<known_agents, stateSets, output_listeners, exit_resolvers,
                   idle_resolvers, readyWait, exitWait, idleWait, nwaits>>

\* The facade has a client: started, or still awaiting its shutdown.
HasClient == relayState \in {"started", "stopping"}

\* What the steps below leave alone beside the facade's sets and waits.
aroundFacade == <<clientVars, anyVars, relayVars, argVars, runVars, moreVars>>

\* The facade from construction on: started on demand, the broker's events
\* while its listener is subscribed, spawns, subscriptions, waits, shutdown.
ShutdownNext ==
    \/ EnsureStarted /\ UNCHANGED <<clientVars, argVars, runVars, moreVars>>
    \/ RelayShutdown /\ UNCHANGED <<clientVars, argVars, runVars, moreVars>>
    \/ RelayShutdownDone /\ UNCHANGED <<clientVars, argVars, runVars, moreVars>>
    \/ RelayShutdownNoClient /\ UNCHANGED <<clientVars, argVars, runVars, moreVars>>
    \/ \E n \in Names : HasClient /\ Spawn(n) /\ UNCHANGED aroundFacade
    \/ \E n \in Names : OnOutput(n) /\ UNCHANGED aroundFacade
    \/ \E n \in Names : wired /\ RelayInbound(n) /\ UNCHANGED aroundFacade
    \/ \E n \in Names : wired /\ AgentSpawned(n) /\ UNCHANGED aroundFacade
    \/ \E n \in Names : wired /\ AgentReleased(n) /\ UNCHANGED aroundFacade
    \/ \E n \in Names : wired /\ AgentExited(n) /\ UNCHANGED aroundFacade
    \/ \E n \in Names : wired /\ AgentExit(n) /\ UNCHANGED aroundFacade
    \/ \E n \in Names : wired /\ WorkerReady(n) /\ UNCHANGED aroundFacade
    \/ \E n \in Names : wired /\ WorkerStream(n) /\ UNCHANGED aroundFacade
    \/ \E n \in Names : wired /\ AgentIdle(n) /\ UNCHANGED aroundFacade
    \/ \E n \in Names : relayState = "stopping" /\ WorkerReadyUnwired(n)
                            /\ UNCHANGED aroundFacade
    \/ \E n \in Names : relayState = "stopping" /\ RelayInboundUnwired(n)
                            /\ UNCHANGED aroundFacade
    \/ \E n \in Names : relayState = "stopping" /\ AgentExitedUnwired(n)
                            /\ UNCHANGED aroundFacade
    \/ \E n \in Names : HasClient /\ WaitForAgentReady(n) /\ UNCHANGED aroundFacade
    \/ \E n \in Names : WaitForAgentReadyTimeout(n) /\ UNCHANGED aroundFacade
    \/ \E n \in Names : HasClient /\ WaitForAgentMessage(n) /\ UNCHANGED aroundFacade
    \/ \E n \in Names : WaitForAgentMessageTimeout(n) /\ UNCHANGED aroundFacade
    \/ \E n \in Names : WaitForExit(n) /\ UNCHANGED aroundFacade
    \/ \E n \in Names : WaitForExitTimeout(n) /\ UNCHANGED aroundFacade
    \/ \E n \in Names : WaitForIdle(n) /\ UNCHANGED aroundFacade
    \/ \E n \in Names : WaitForIdleTimeout(n) /\ UNCHANGED aroundFacade

ShutdownSpec == Init /\ [][ShutdownNext]_vars

----------------------------------------------------------------------------
\* The argument shaper of spawn_pty (client.py 40-64), a pure function.

\* model is None or ""
NoModel == ""

\* _CLI_MODEL_FLAG_CLIS
CLI_MODEL_FLAG_CLIS == {"claude", "codex", "gemini", "goose", "aider"}

\* The CLI identifiers the shaper is applied to here, and for each what
\* cli.split(":")[0].strip().lower() gives.
Clis == {"codex", "Codex:fast", "claude", "cat"}

CliName(cli) ==
    CASE cli = "codex" -> "codex"
      [] cli = "Codex:fast" -> "codex"
      [] cli = "claude" -> "claude"
      [] cli = "cat" -> "cat"

\* _CLI_DEFAULT_ARGS.get(cli_name, [])
CLI_DEFAULT_ARGS(cli_name) ==
    IF cli_name = "codex" THEN <<"-c", "check_for_update_on_startup=false">>
    ELSE <<>>

\* The arguments a caller passes here, and the models.
CallerArgs == {"-x", "--model", "--model=other", "--models"}
Models == {NoModel, "gpt-5.2"}

\* arg == "--model" or arg.startswith("--model="), for the arguments that occur.
IsModelArg(arg) == arg \in {"--model", "--model=other"}

\* _has_model_arg(args)
HasModelArg(args) == \E i \in 1..Len(args) : IsModelArg(args[i])

\* _build_pty_args_with_model(cli, args, model)
BuildPtyArgsWithModel(cli, args, model) ==
    LET cli_name == CliName(cli)
        default_args == CLI_DEFAULT_ARGS(cli_name)
        base_args == default_args \o args IN
    IF model = NoModel THEN base_args
    ELSE IF cli_name \notin CLI_MODEL_FLAG_CLIS THEN base_args
    ELSE IF HasModelArg(base_args) THEN base_args
    ELSE <<"--model", model>> \o base_args

\* The longest argument vector of a caller.
MaxArgs == 2

\* The argument vectors of at most MaxArgs arguments.
ArgVectors == UNION {[1..k -> CallerArgs] : k \in 0..MaxArgs}

\* The shaper is about to be applied to any CLI, vector and model.
ArgsInit ==
    /\ ProgramInit
    /\ pty_cli \in Clis
    /\ pty_args \in ArgVectors
    /\ pty_model \in Models
    /\ RunIdle
    /\ MoreIdle
    /\ built_args = <<>>
    /\ rebuilt_args = <<>>
    /\ nbuilt = 0

\* spawn_pty shapes the caller's arguments (client.py 421).
BuildArgs ==
    /\ nbuilt = 0
    /\ built_args' = BuildPtyArgsWithModel(pty_cli, pty_args, pty_model)
    /\ nbuilt' = 1
    /\ UNCHANGED <<pty_cli, pty_args, pty_model, rebuilt_args>>

\* The result is shaped again, with the same CLI and model.
RebuildArgs ==
    /\ nbuilt = 1
    /\ rebuilt_args' = BuildPtyArgsWithModel(pty_cli, built_args, pty_model)
    /\ nbuilt' = 2
    /\ UNCHANGED <<pty_cli, pty_args, pty_model, built_args>>

\* What the shaper's steps leave alone.
aroundArgs == <<lifecycleVars, eventVars, errVars, last_stderr_line, exit_detail,
                stderrState, facadeVars, anyVars, relayVars, runVars, moreVars>>

ArgsNext ==
    \/ BuildArgs /\ UNCHANGED aroundArgs
    \/ RebuildArgs /\ UNCHANGED aroundArgs

ArgsSpec == ArgsInit /\ [][ArgsNext]_vars

----------------------------------------------------------------------------
\* The workflow runner (builder.py): run() writes the configuration to a
\* temporary file, runs `agent-relay run <file>`, reads its output line by
\* line and derives the result from the events in it and the exit code.

\* The lines the runner may write, as _RUN_LINE_RE sees them (builder.py 62):
\* "[run] <status>" with or without ": <detail>", other text, an empty line.
RunnerLines ==
    { [kind |-> "run", status |-> "failed", detail |-> "boom", raw |-> "[run] failed: boom"],
      [kind |-> "run", status |-> "failed", detail |-> "late", raw |-> "[run] failed: late"],
      [kind |-> "run", status |-> "failed", detail |-> "", raw |-> "[run] failed"],
      [kind |-> "run", status |-> "cancelled", detail |-> "", raw |-> "[run] cancelled"],
      [kind |-> "run", status |-> "completed", detail |-> "", raw |-> "[run] completed"],
      [kind |-> "text", status |-> "", detail |-> "", raw |-> "trace line"],
      [kind |-> "text", status |-> "", detail |-> "", raw |-> ""] }

\* The lines the runner writes at most.
MaxRunLines == 3

\* The exit codes of the runner.
ExitCodes == {0, 1}

\* _parse_cli_event returns None
NoEvent == [type |-> "none", error |-> ""]

\* _parse_cli_event(line) for the run lines (builder.py 474-487): a failed
\* event carries the detail, or "Workflow failed" when there is none.
ParseCliEvent(line) ==
    IF line.kind # "run" THEN NoEvent
    ELSE IF line.status = "failed"
    THEN [type |-> "run:failed",
          error |-> IF line.detail # "" THEN line.detail ELSE "Workflow failed"]
    ELSE IF line.status = "cancelled" THEN [type |-> "run:cancelled", error |-> ""]
    ELSE IF line.status = "completed" THEN [type |-> "run:completed", error |-> ""]
    ELSE [type |-> "run:started", error |-> ""]

\* The events of _execute_cli: the lines that parse to one, in order (456-463).
EventsOf(ls) ==
    SelectSeq([i \in 1..Len(ls) |-> ParseCliEvent(ls[i])], LAMBDA e : e # NoEvent)

\* _resolve_status(return_code, events) (builder.py 586-592)
ResolveStatus(code, events) ==
    IF \E i \in 1..Len(events) : events[i].type = "run:cancelled" THEN "cancelled"
    ELSE IF code = 0 THEN "completed"
    ELSE "failed"

\* The greatest index in a set of indices, 0 when there is none.
LastIndex(hits) ==
    IF hits = {} THEN 0 ELSE CHOOSE i \in hits : \A j \in hits : j <= i

\* _resolve_error(output, events, return_code) (builder.py 595-608)
ResolveError(ls, events, code) ==
    LET failed == LastIndex({i \in 1..Len(events) :
                               events[i].type = "run:failed" /\ events[i].error # ""})
        text == LastIndex({i \in 1..Len(ls) : ls[i].raw # ""}) IN
    IF code = 0 THEN NoError
    ELSE IF failed # 0 THEN events[failed].error
    ELSE IF text # 0 THEN ls[text].raw
    ELSE "Workflow failed"

\* run() -> _run_config (builder.py 406-412): the temporary file is created
\* and the configuration is dumped into it; a dump that raises leaves the
\* `with` block, which closes the file, before the try block is entered.
RunConfig ==
    /\ runPc = "idle"
    /\ tmpFile' = "exists"
    /\ \E dumped \in BOOLEAN : runPc' = IF dumped THEN "written" ELSE "raised"
    /\ UNCHANGED <<cli_lines, return_code, result>>

\* _run_yaml_path finds no runner (builder.py 393-397): RuntimeError, and the
\* finally block of _run_config removes the file (414-417).
RunnerNotFound ==
    /\ runPc = "written"
    /\ runPc' = "raised"
    /\ tmpFile' = "removed"
    /\ UNCHANGED <<cli_lines, return_code, result>>

\* _execute_cli starts the runner (builder.py 426-432).
RunnerStarts ==
    /\ runPc = "written"
    /\ runPc' = "running"
    /\ UNCHANGED <<tmpFile, cli_lines, return_code, result>>

\* A line of the runner is read (builder.py 440-453); on_event, when the line
\* is an event, returns or raises, and then the file is removed on the way out.
ReadRunnerLine(line) ==
    /\ runPc = "running"
    /\ Len(cli_lines) < MaxRunLines
    /\ cli_lines' = Append(cli_lines, line)
    /\ \E raises \in BOOLEAN :
         /\ raises => ParseCliEvent(line) # NoEvent
         /\ IF raises
            THEN runPc' = "raised" /\ tmpFile' = "removed"
            ELSE UNCHANGED <<runPc, tmpFile>>
    /\ UNCHANGED <<return_code, result>>

\* The runner ends with an exit code (builder.py 455-471): status and error
\* are resolved, the result is returned and the file removed (414-417).
RunnerExits(code) ==
    /\ runPc = "running"
    /\ return_code' = code
    /\ result' = [status |-> ResolveStatus(code, EventsOf(cli_lines)),
                  error |-> ResolveError(cli_lines, EventsOf(cli_lines), code)]
    /\ runPc' = "returned"
    /\ tmpFile' = "removed"
    /\ UNCHANGED cli_lines

\* What the runner's steps leave alone.
aroundRun == <<lifecycleVars, eventVars, errVars, last_stderr_line, exit_detail,
               stderrState, facadeVars, anyVars, relayVars, argVars, moreVars>>

RunNext ==
    \/ RunConfig /\ UNCHANGED aroundRun
    \/ RunnerNotFound /\ UNCHANGED aroundRun
    \/ RunnerStarts /\ UNCHANGED aroundRun
    \/ \E line \in RunnerLines : ReadRunnerLine(line) /\ UNCHANGED aroundRun
    \/ \E code \in ExitCodes : RunnerExits(code) /\ UNCHANGED aroundRun

RunSpec == Init /\ [][RunNext]_vars

----------------------------------------------------------------------------
\* Properties of the stdout reader: responses, events, listeners.

\* C11: an envelope matched to a pending request fails it with the protocol
\* error when its type is error, fails it with the process error "unexpected
\* response type" when its type is neither error nor the expected one, and
\* resolves it with the envelope otherwise (for every pending request and
\* every type a line may carry); and in the step in which an envelope
\* completes a request, the request leaves the pending table, its timer is
\* cancelled and its future holds one of these three outcomes.
C11_ResponseOutcome ==
    /\ [](\A n \in DOMAIN pending : \A t \in ResponseTypes, p \in Procs :
            LET env == [type |-> t, request_id |-> n, src |-> p]
                out == Outcome(env, pending[n]) IN
            /\ t = "error" => out = ProtocolError
            /\ (t # "error" /\ t # pending[n].expected_type) =>
                   out = ProcessError("unexpected response type", NoProc)
            /\ (t # "error" /\ t = pending[n].expected_type) =>
                   out = [kind |-> "result", msg |-> t, proc |-> p, request_id |-> n])
    /\ [][\A n \in DOMAIN pending :
            fut'[n].by = "envelope" =>
                /\ n \notin DOMAIN pending'
                /\ n \notin timers'
                /\ fut'[n].sets = 1
                /\ \E t \in ResponseTypes, p \in Procs :
                     fut'[n].val = Outcome([type |-> t, request_id |-> n, src |-> p],
                                           pending[n])]_vars

\* One request was failed by an error envelope and another by an envelope of an
\* unexpected type; both are out of the pending table and their timers are gone.
C11_Witness ==
    \E n, m \in ReqIds :
        /\ fut[n].by = "envelope" /\ fut[n].val = ProtocolError
        /\ fut[m].by = "envelope" /\ fut[m].val.msg = "unexpected response type"
        /\ {n, m} \cap DOMAIN pending = {}
        /\ {n, m} \cap timers = {}

\* C12: a listener that raises during the dispatch of an event does not end
\* the stdout reader: in every step that handles an event, the event is in
\* the buffer afterwards and every reader that ran before still runs, so that
\* the later lines (events and responses) are processed.
C12_ListenerErrorSpared ==
    [][nevents' = nevents + 1 =>
          /\ event_buffer'[Len(event_buffer')] = nevents'
          /\ \A p \in Procs : readerState[p] = "running" => readerState'[p] = "running"]_vars

C14_BufferBounded ==
    LET m == IF nevents < max_buffer_size THEN nevents ELSE max_buffer_size IN
    /\ Len(event_buffer) <= max_buffer_size
    /\ event_buffer = [i \in 1..m |-> nevents - m + i]

\* More events were received than the cap: the buffer is full and the first
\* event is gone from it.
C14_Witness ==
    /\ nevents > max_buffer_size
    /\ Len(event_buffer) = max_buffer_size
    /\ event_buffer[1] > 1

\* C15: the event buffer is cleared on shutdown: in the step in which
\* shutdown() returns, query_events comes to return no event.
C15_BufferClearedOnShutdown ==
    [][\A c \in Callers :
          (InShutdown(c) /\ callers'[c].pc = "idle") => query_events' = <<>>]_vars

----------------------------------------------------------------------------
\* Properties of the stderr reader and the exit monitor.

\* The last line of a sequence that is not blank, NoLine when there is none.
LastNonBlank(lines) ==
    LET idx == {i \in 1..Len(lines) : ~lines[i].blank} IN
    IF idx = {} THEN NoLine
    ELSE lines[CHOOSE i \in idx : \A j \in idx : j <= i]

\* The lines of subprocess p among those listener l was called with.
ReceivedFrom(l, p) == SelectSeq(errDelivered[l], LAMBDA line : line.proc = p)

\* C16: when the exit monitor of a subprocess whose stderr task runs finds
\* requests pending, it fails each of them with the process error of that
\* subprocess, the detail of the message is the last non-blank line that
\* subprocess wrote to stderr (none if it wrote none), and every registered
\* stderr listener has received the lines the subprocess wrote since the
\* listener was registered, all of them and in order; whatever the order in
\* which the subprocess wrote, the stderr task read and the subprocess exited.
C16_ExitErrorHasLastLine ==
    [][\A p \in Procs :
          (/\ monitor[p] = "waiting" /\ monitor'[p] = "done"
           /\ stderrState[p] = "running"
           /\ DOMAIN pending # {}) =>
              /\ \A n \in DOMAIN pending :
                    fut'[n].val = ProcessError("broker exited", p)
              /\ exit_detail'[p] = LastNonBlank(errWritten[p])
              /\ \A i \in 1..Len(stderr_listeners) :
                    \E k \in 0..Len(errWritten[p]) :
                       ReceivedFrom(stderr_listeners[i], p)
                          = SubSeq(errWritten[p], k + 1, Len(errWritten[p]))]_vars

----------------------------------------------------------------------------
\* Properties of the relay facade.

\* The place of a status in spawning -> ready -> idle -> exited.
Rank(status) ==
    CASE status = "spawning" -> 0
      [] status = "ready" -> 1
      [] status = "idle" -> 2
      [] status = "exited" -> 3

StatusAfter(n) == StatusIn(n, exited_agents', idle_agents', ready_agents')

\* C17 as stated: the derived status of a name only moves forward along
\* spawning -> ready -> idle -> exited; it goes back only on a worker_ready
\* for a name in exited, or on a new spawn (agent_spawned, spawn()).
C17_StatusMonotonic ==
    [][\A n \in Names :
          Rank(StatusAfter(n)) < Rank(Status(n)) =>
              \/ WorkerReady(n) /\ Status(n) = "exited"
              \/ AgentSpawned(n)
              \/ Spawn(n)]_vars

\* C17, amended: the derived status of a name changes only in a step about
\* that name, and it goes back along spawning -> ready -> idle -> exited in
\* these cases only: a new spawn (agent_spawned, spawn()) gives spawning;
\* worker_ready for a name in idle or exited gives ready; worker_stream for a
\* name in idle gives ready, or spawning when the name is not in ready;
\* relay_inbound from a name in exited that has a handle or is awaited by
\* wait_for_agent_message clears exited, which gives idle or spawning.
C17_StatusMoves ==
    [][\A n \in Names :
          /\ StatusAfter(n) # Status(n) =>
                \/ Spawn(n) \/ AgentSpawned(n) \/ WorkerReady(n) \/ WorkerStream(n)
                \/ RelayInbound(n) \/ AgentIdle(n) \/ AgentExited(n)
                \/ AgentReleased(n)
          /\ Rank(StatusAfter(n)) < Rank(Status(n)) =>
                \/ (Spawn(n) \/ AgentSpawned(n)) /\ StatusAfter(n) = "spawning"
                \/ /\ WorkerReady(n)
                   /\ Status(n) \in {"idle", "exited"}
                   /\ StatusAfter(n) = "ready"
                \/ /\ WorkerStream(n)
                   /\ Status(n) = "idle"
                   /\ StatusAfter(n) = (IF n \in ready_agents THEN "ready" ELSE "spawning")
                \/ /\ RelayInbound(n)
                   /\ Status(n) = "exited"
                   /\ n \in known_agents \/ messageWait[n] = "waiting"
                   /\ StatusAfter(n) \in {"idle", "spawning"}]_vars

\* A wait_for_idle returned "idle" for a name that is in ready and neither in
\* idle nor in exited now: its status went from idle back to ready.
C17_Witness ==
    \E n \in Names :
        /\ idleWait[n] = "idle"
        /\ Status(n) = "ready"
        /\ n \in known_agents

\* C18: in every step that processes agent_exited (resp. agent_released) for
\* a name, afterwards the name is in exited and in none of ready,
\* message_ready and idle, it has no handle and no output listeners, an
\* installed exit resolver is gone and its wait has the outcome "exited"
\* (resp. "released"), an installed idle resolver is gone and its wait has
\* the outcome "exited".
C18_AgentGoneState ==
    [][\A n \in Names :
          (AgentExited(n) \/ AgentReleased(n)) =>
              /\ n \in exited_agents'
              /\ n \notin ready_agents' \cup message_ready_agents' \cup idle_agents'
              /\ n \notin known_agents'
              /\ n \notin output_listeners'
              /\ n \notin exit_resolvers' \cup idle_resolvers'
              /\ (n \in exit_resolvers /\ AgentExited(n)) => exitWait'[n] = "exited"
              /\ (n \in exit_resolvers /\ AgentReleased(n)) => exitWait'[n] = "released"
              /\ n \in idle_resolvers => idleWait'[n] = "exited"]_vars

\* A name was released while a wait_for_exit and a wait_for_idle waited on it.
C18_Witness ==
    \E n \in Names :
        /\ exitWait[n] = "released"
        /\ idleWait[n] = "exited"
        /\ n \in exited_agents
        /\ n \notin known_agents \cup output_listeners \cup ready_agents \cup idle_agents

\* C19: a call of wait_for_agent_ready returns at once exactly when the name
\* has a handle and is in ready; a waiting call is resolved by every
\* worker_ready for its name, and only by that: when it is resolved the name
\* has a handle and its status is ready; otherwise it stays waiting until its
\* timeout expires, and then fails with the timeout error.
C19_WaitForReady ==
    [][\A n \in Names :
          /\ (readyWait[n] # "waiting" /\ nwaits' # nwaits /\ readyWait'[n] # readyWait[n]) =>
                readyWait'[n] = (IF n \in known_agents /\ n \in ready_agents
                                 THEN "returned" ELSE "waiting")
          /\ readyWait[n] = "waiting" =>
                /\ WorkerReady(n) => readyWait'[n] = "resolved"
                /\ readyWait'[n] = "resolved" =>
                      WorkerReady(n) /\ n \in known_agents' /\ StatusAfter(n) = "ready"
                /\ readyWait'[n] \in {"waiting", "resolved", "timeout"}
                /\ readyWait'[n] = "timeout" => WaitForAgentReadyTimeout(n)]_vars

\* One wait was resolved by a worker_ready and the status of its name is
\* ready; another one returned at once.
C19_Witness ==
    \E n, m \in Names :
        /\ readyWait[n] = "resolved" /\ Status(n) = "ready"
        /\ readyWait[m] = "returned"

\* C20: a waiting wait_for_agent_message is resolved by a relay_inbound from
\* its name, and only by that; it fails with the "exited before its first
\* message" error when agent_exited for its name is processed, and only then;
\* whichever comes first decides: the outcome of a call does not change any
\* more.
C20_WaitForMessage ==
    [][\A n \in Names :
          /\ messageWait[n] = "waiting" =>
                /\ RelayInbound(n) => messageWait'[n] = "resolved"
                /\ AgentExited(n) => messageWait'[n] = "exited_error"
                /\ messageWait'[n] = "resolved" =>
                      RelayInbound(n) /\ n \in message_ready_agents' \cap known_agents'
                /\ messageWait'[n] = "exited_error" => AgentExited(n)
                /\ messageWait'[n] \in {"waiting", "resolved", "exited_error", "timeout"}
          /\ (messageWait[n] \in {"resolved", "exited_error"} /\ nwaits' = nwaits) =>
                messageWait'[n] = messageWait[n]]_vars

\* One wait failed because its agent exited first, another one got its
\* message.
C20_Witness ==
    \E n, m \in Names :
        /\ messageWait[n] = "exited_error"
        /\ messageWait[m] = "resolved" /\ m \in message_ready_agents

----------------------------------------------------------------------------
\* Properties of the exit and idle waits of a handle.

\* C21: Agent.wait_for_exit returns "exited" at once when the name has no
\* handle; otherwise the wait whose resolver is installed returns "exited" at
\* agent_exited and "released" at agent_released, or "timeout" when its time
\* elapses first (at once for timeout_ms = 0), and the step that times it out
\* leaves no exit resolver for the name; a wait returns in no other way.
C21_WaitForExit ==
    [][\A n \in Names :
        /\ (WaitForExit(n) /\ n \notin known_agents)
              => (exitWait'[n] = "exited" /\ exit_resolvers' = exit_resolvers)
        /\ (WaitForExit(n) /\ n \in known_agents)
              => \/ exitWait'[n] = "waiting" /\ n \in exit_resolvers'
                 \/ exitWait'[n] = "timeout" /\ exit_resolvers' = exit_resolvers
        /\ (exitWait[n] = "waiting" /\ n \in exit_resolvers /\ AgentExited(n))
              => exitWait'[n] = "exited"
        /\ (exitWait[n] = "waiting" /\ n \in exit_resolvers /\ AgentReleased(n))
              => exitWait'[n] = "released"
        /\ WaitForExitTimeout(n)
              => (exitWait'[n] = "timeout" /\ n \notin exit_resolvers')
        /\ (exitWait[n] = "waiting" /\ exitWait'[n] # "waiting")
              => \/ AgentExited(n) /\ exitWait'[n] = "exited"
                 \/ AgentReleased(n) /\ exitWait'[n] = "released"
                 \/ WaitForExitTimeout(n)
      ]_vars

\* One exit wait timed out and left no resolver while the agent still has its
\* handle, another was resolved by agent_released.
C21_Witness ==
    /\ exitWait["A"] = "timeout"
    /\ "A" \in known_agents
    /\ "A" \notin exit_resolvers
    /\ exitWait["B"] = "released"

\* C22: Agent.wait_for_idle returns "exited" at once when the name has no
\* handle; otherwise the wait whose resolver is installed returns "idle" at the
\* next agent_idle, "exited" when agent_exited or agent_released comes first,
\* or "timeout" when its time elapses first; each outcome is a returned value,
\* and a wait returns in no other way.
C22_WaitForIdle ==
    [][\A n \in Names :
        /\ (WaitForIdle(n) /\ n \notin known_agents)
              => (idleWait'[n] = "exited" /\ idle_resolvers' = idle_resolvers)
        /\ (WaitForIdle(n) /\ n \in known_agents)
              => \/ idleWait'[n] = "waiting" /\ n \in idle_resolvers'
                 \/ idleWait'[n] = "timeout" /\ idle_resolvers' = idle_resolvers
        /\ (idleWait[n] = "waiting" /\ n \in idle_resolvers /\ AgentIdle(n))
              => idleWait'[n] = "idle"
        /\ (idleWait[n] = "waiting" /\ n \in idle_resolvers
               /\ (AgentExited(n) \/ AgentReleased(n)))
              => idleWait'[n] = "exited"
        /\ WaitForIdleTimeout(n)
              => (idleWait'[n] = "timeout" /\ n \notin idle_resolvers')
        /\ (idleWait[n] = "waiting" /\ idleWait'[n] # "waiting")
              => \/ AgentIdle(n) /\ idleWait'[n] = "idle"
                 \/ (AgentExited(n) \/ AgentReleased(n)) /\ idleWait'[n] = "exited"
                 \/ WaitForIdleTimeout(n)
        /\ idleWait'[n] \in {"none", "waiting", "idle", "exited", "timeout"}
      ]_vars

\* One idle wait was resolved by agent_idle, the other by the exit of its agent.
C22_Witness ==
    /\ idleWait["A"] = "idle"
    /\ "A" \in idle_agents
    /\ idleWait["B"] = "exited"
    /\ "B" \in exited_agents

----------------------------------------------------------------------------
\* Properties of wait_for_any and of the facade's shutdown.

\* C23: wait_for_any is given at least one agent, and once it has returned,
\* the pair it returned is that of the first of its waits that resolved and
\* none of its waits is still pending.
C23_WaitForAnyFirst ==
    /\ anyState \in {"waiting", "returned"} => anyAgents # <<>>
    /\ anyState = "returned" =>
          /\ anyResult = anyOrder[1]
          /\ \A n \in Names : anyExit[n] # "waiting"

\* C24: once the facade's shutdown() has returned, its listener is unsubscribed
\* from the client's events and the registry, the four state sets, the output
\* listeners and both resolver tables are empty; the step that ends it makes
\* every pending wait_for_exit return "released" and every pending
\* wait_for_idle return "exited".
C24_ShutdownClearsFacade ==
    [][/\ relayState' = "stopped" =>
            /\ ~wired'
            /\ known_agents' = {}
            /\ ready_agents' = {} /\ message_ready_agents' = {}
            /\ exited_agents' = {} /\ idle_agents' = {}
            /\ output_listeners' = {}
            /\ exit_resolvers' = {} /\ idle_resolvers' = {}
            /\ \A n \in Names : exitWait'[n] # "waiting" /\ idleWait'[n] # "waiting"
       /\ (RelayShutdownDone \/ RelayShutdownNoClient) =>
            \A n \in Names :
                /\ exitWait[n] = "waiting" => exitWait'[n] = "released"
                /\ idleWait[n] = "waiting" => idleWait'[n] = "exited"
      ]_vars

\* shutdown() has returned, the registry is empty, and the two waits made,
\* wait_for_exit and wait_for_idle on A, returned "released" and "exited".
C24_Witness ==
    /\ relayState = "stopped"
    /\ exitWait["A"] = "released"
    /\ idleWait["A"] = "exited"
    /\ known_agents = {}
    /\ nwaits = MaxWaits

----------------------------------------------------------------------------
\* Properties of the client's shutdown and of its listener list.

C26_UnsubscribeRestoresList ==
    \A l \in Listeners :
        SubscribeThenUnsubscribe(event_listeners, l) = event_listeners

----------------------------------------------------------------------------
\* Properties of the argument shaper.

\* C27: for a CLI that accepts --model, a model, and caller arguments without
\* --model and --model=..., the shaped vector is the default arguments of the
\* CLI, then --model and the model, then the caller's arguments in order.
C27_ModelAfterDefaults ==
    (/\ nbuilt >= 1
     /\ CliName(pty_cli) \in CLI_MODEL_FLAG_CLIS
     /\ pty_model # NoModel
     /\ ~HasModelArg(pty_args))
    => built_args = CLI_DEFAULT_ARGS(CliName(pty_cli))
                      \o <<"--model", pty_model>> \o pty_args

\* C28: for a CLI that accepts --model and a model, shaping the shaped vector
\* again with the same CLI and model gives the same vector.
C28_ShapingIdempotent ==
    (/\ nbuilt = 2
     /\ CliName(pty_cli) \in CLI_MODEL_FLAG_CLIS
     /\ pty_model # NoModel)
    => rebuilt_args = built_args

----------------------------------------------------------------------------
\* Properties of the workflow runner.

\* The error the result should carry for a status: none unless the status is
\* "failed", and then the detail of the most recent "[run] failed" line (the
\* default "Workflow failed" for one without detail), else the last non-empty
\* line, else "Workflow failed".
ErrorFor(status, ls) ==
    LET failed == LastIndex({i \in 1..Len(ls) :
                               ls[i].kind = "run" /\ ls[i].status = "failed"})
        text == LastIndex({i \in 1..Len(ls) : ls[i].raw # ""}) IN
    IF status # "failed" THEN NoError
    ELSE IF failed # 0
    THEN (IF ls[failed].detail # "" THEN ls[failed].detail ELSE "Workflow failed")
    ELSE IF text # 0 THEN ls[text].raw
    ELSE "Workflow failed"

\* C29: in the result of a run the status is "cancelled" when a cancelled
\* event was read, else "completed" for exit code 0, else "failed", and the
\* error is null for "completed" and "cancelled" and the failure text for
\* "failed".
C29_ErrorOnlyOnFailure ==
    runPc = "returned" =>
        /\ result.status =
              (IF \E i \in 1..Len(cli_lines) :
                     cli_lines[i].kind = "run" /\ cli_lines[i].status = "cancelled"
               THEN "cancelled"
               ELSE IF return_code = 0 THEN "completed" ELSE "failed")
        /\ result.error = ErrorFor(result.status, cli_lines)

\* C30: when run() has returned or raised, the temporary file it created does
\* not exist any more.
C30_TempFileRemoved ==
    runPc \in {"returned", "raised"} => tmpFile # "exists"

----------------------------------------------------------------------------
\* The workflow builder (builder.py) and the pipeline template (templates.py).

\* The most definitions added to one builder by agent() and by step().
MaxDefs == 3

\* The most stages a pipeline is built from.
MaxStages == 2

\* depends_on is None; a step definition without the key dependsOn
NoDeps == <<"<None>">>

\* PipelineStage.agent is None or ""
NoAgent == ""

AgentNames == {"a1", "s1-agent"}
StepNames == {"s1", "S 2"}
Patterns == {"dag", "fan-out"}
DependsOn == {NoDeps, <<>>, <<"x">>}

\* _slug(f"{name}-agent", fallback) for the stage names used here: runs of
\* characters outside [a-zA-Z0-9_-] become one "-", dashes at the ends are
\* stripped, the rest is lowered.  The fallback is never used: "-agent" stays.
Slug(name) ==
    CASE name = "s1" -> "s1-agent"
      [] name = "S 2" -> "s-2-agent"
      [] OTHER -> "agent"

\* The stages pipeline() is called with.
Stages == [name : StepNames, agent : {NoAgent, "a1"}, depends_on : DependsOn]

StageLists == {<<>>} \cup UNION {[1..k -> Stages] : k \in 1..MaxStages}

\* The builder's inputs are drawn first; then it is made and used.
BuilderInit ==
    /\ ProgramInit
    /\ ArgsIdle
    /\ RunIdle
    /\ wf_agents = <<>>
    /\ wf_steps = <<>>
    /\ wf_pattern = NoBuilder
    /\ stages \in StageLists
    /\ config = NoConfig
    /\ CallsIdle
    /\ SpawnIdle
    /\ HooksIdle
    /\ KindsIdle
    /\ ListIdle

\* workflow(name): WorkflowBuilder.__init__.
Workflow ==
    /\ wf_pattern = NoBuilder
    /\ stages = <<>>
    /\ wf_pattern' = "dag"
    /\ UNCHANGED <<wf_agents, wf_steps, stages, config>>

\* WorkflowBuilder.pattern(p)
BuilderPattern(p) ==
    /\ wf_pattern # NoBuilder
    /\ wf_pattern' = p
    /\ UNCHANGED <<wf_agents, wf_steps, stages, config>>

\* The agent definition agent(name, cli=cli) appends.
AgentDef(name, cli) == [name |-> name, cli |-> cli]

\* The step definition step(name, agent=agent, depends_on=depends_on) appends:
\* the key dependsOn is there unless depends_on is None.
StepDef(name, agent, depends_on) ==
    [name |-> name, agent |-> agent, dependsOn |-> depends_on]

\* WorkflowBuilder.agent(name, cli=cli)
BuilderAgent(name, cli) ==
    /\ wf_pattern # NoBuilder
    /\ Len(wf_agents) < MaxDefs
    /\ wf_agents' = Append(wf_agents, AgentDef(name, cli))
    /\ UNCHANGED <<wf_steps, wf_pattern, stages, config>>

\* WorkflowBuilder.step(name, agent=agent, task=..., depends_on=depends_on)
BuilderStep(name, agent, depends_on) ==
    /\ wf_pattern # NoBuilder
    /\ Len(wf_steps) < MaxDefs
    /\ wf_steps' = Append(wf_steps, StepDef(name, agent, depends_on))
    /\ UNCHANGED <<wf_agents, wf_pattern, stages, config>>

\* to_config() that looks at the agents only.
ConfigOfAgentsOnly(agents, steps, pattern) ==
    IF agents = <<>> THEN ValueError
    ELSE [agents |-> agents, steps |-> steps, pattern |-> pattern]

\* What to_config() gives for the lists and the pattern of a builder.
ConfigOf(agents, steps, pattern) ==
    IF agents = <<>> \/ steps = <<>> THEN ValueError
    ELSE [agents |-> agents, steps |-> steps, pattern |-> pattern]

\* WorkflowBuilder.to_config()
ToConfig ==
    /\ wf_pattern # NoBuilder
    /\ config' = ConfigOf(wf_agents, wf_steps, wf_pattern)
    /\ UNCHANGED <<wf_agents, wf_steps, wf_pattern, stages>>

\* pipeline(): agent_name of the index-th stage
StageAgent(stage) ==
    IF stage.agent # NoAgent THEN stage.agent ELSE Slug(stage.name)

\* pipeline() that puts the caller's dependencies before the previous step.
StageDepsExtraFirst(stgs, i) ==
    LET previous == IF i > 1 THEN <<stgs[i - 1].name>> ELSE <<>>
        extra == IF stgs[i].depends_on = NoDeps THEN <<>> ELSE stgs[i].depends_on
        dependencies == extra \o previous IN
    IF dependencies = <<>> THEN NoDeps ELSE dependencies

\* pipeline(): the dependencies of the i-th stage's step, previous_step first,
\* and None for an empty list.
StageDeps(stgs, i) ==
    LET previous == IF i > 1 THEN <<stgs[i - 1].name>> ELSE <<>>
        extra == IF stgs[i].depends_on = NoDeps THEN <<>> ELSE stgs[i].depends_on
        dependencies == previous \o extra IN
    IF dependencies = <<>> THEN NoDeps ELSE dependencies

\* pipeline(): the agents it defines from stage i on, one per agent name not
\* in defined_agents yet, with default_cli.
RECURSIVE PipelineAgents(_, _, _)
PipelineAgents(stgs, i, defined_agents) ==
    IF i > Len(stgs) THEN <<>>
    ELSE LET agent_name == StageAgent(stgs[i]) IN
         IF agent_name \in defined_agents
         THEN PipelineAgents(stgs, i + 1, defined_agents)
         ELSE <<AgentDef(agent_name, "claude")>>
                \o PipelineAgents(stgs, i + 1, defined_agents \cup {agent_name})

\* pipeline(): the steps it adds, one per stage.
PipelineSteps(stgs) ==
    [i \in 1..Len(stgs) |->
        StepDef(stgs[i].name, StageAgent(stgs[i]), StageDeps(stgs, i))]

\* pipeline(name, stages) for a non-empty list of stages (it raises ValueError
\* for an empty one and makes no builder).
Pipeline ==
    /\ wf_pattern = NoBuilder
    /\ stages # <<>>
    /\ wf_pattern' = "pipeline"
    /\ wf_agents' = PipelineAgents(stages, 1, {})
    /\ wf_steps' = PipelineSteps(stages)
    /\ UNCHANGED <<stages, config>>

\* What the builder's steps leave alone.
aroundBuilder == <<lifecycleVars, eventVars, errVars, last_stderr_line, exit_detail,
                   stderrState, facadeVars, anyVars, relayVars, argVars, runVars,
                   callVars, spawnCall, hookVars, kindless, listVars>>

BuilderNext ==
    \/ Workflow /\ UNCHANGED aroundBuilder
    \/ Pipeline /\ UNCHANGED aroundBuilder
    \/ \E p \in Patterns : BuilderPattern(p) /\ UNCHANGED aroundBuilder
    \/ \E name \in AgentNames : BuilderAgent(name, "claude") /\ UNCHANGED aroundBuilder
    \/ \E name \in StepNames, depends_on \in {NoDeps, <<"s1">>} :
          BuilderStep(name, "a1", depends_on) /\ UNCHANGED aroundBuilder
    \/ ToConfig /\ UNCHANGED aroundBuilder

BuilderSpec == BuilderInit /\ [][BuilderNext]_vars

----------------------------------------------------------------------------
\* Properties of the builder and of the pipeline template.

\* s is t or the beginning of t
IsPrefix(s, t) == Len(s) <= Len(t) /\ SubSeq(t, 1, Len(s)) = s

\* C31: to_config() fails with ValueError exactly when the builder holds no
\* agent or no step, whatever calls were made before and in whatever order;
\* otherwise the document's agents and steps are the builder's, in the order
\* they were added, and no call on the builder removes or reorders what was
\* added before.
C31_BuildFailsIffEmpty ==
    [][/\ (wf_pattern # NoBuilder
              => IsPrefix(wf_agents, wf_agents') /\ IsPrefix(wf_steps, wf_steps'))
       /\ (config' # config
              => /\ (config' = ValueError) <=> (wf_agents = <<>> \/ wf_steps = <<>>)
                 /\ config' # ValueError
                       => config'.agents = wf_agents /\ config'.steps = wf_steps)]_vars

\* A document was built from a builder made by workflow() after two agents
\* and two steps had been added in turn, and a step was added afterwards.
C31_Witness ==
    /\ config # NoConfig
    /\ config # ValueError
    /\ stages = <<>>
    /\ Len(config.agents) = 2
    /\ Len(config.steps) = 2
    /\ Len(wf_steps) = 3

\* The caller-supplied extra dependencies of a stage, in order.
Extra(stage) == IF stage.depends_on = NoDeps THEN <<>> ELSE stage.depends_on

\* C32: in a builder made by pipeline() from n stages, the steps are the
\* stages' in stage order, the first step has no dependency of its own beside
\* the caller's, and every later step depends on the step just before it and
\* then on the caller's extra dependencies of its stage, in order; the built
\* document has the same steps.
C32_PipelineThreadsDeps ==
    (stages # <<>> /\ wf_pattern # NoBuilder) =>
        /\ Len(wf_steps) >= Len(stages)
        /\ \A i \in 1..Len(stages) :
              /\ wf_steps[i].name = stages[i].name
              /\ i = 1 => wf_steps[i].dependsOn \in {NoDeps, Extra(stages[i])}
              /\ i = 1 /\ Extra(stages[i]) # <<>>
                    => wf_steps[i].dependsOn = Extra(stages[i])
              /\ i > 1 => wf_steps[i].dependsOn
                             = <<stages[i - 1].name>> \o Extra(stages[i])
        /\ config \notin {NoConfig, ValueError}
              => SubSeq(config.steps, 1, Len(stages)) = SubSeq(wf_steps, 1, Len(stages))

\* A two-stage pipeline whose second stage has an extra dependency was built.
C32_Witness ==
    /\ Len(stages) = 2
    /\ stages[2].depends_on = <<"x">>
    /\ wf_pattern # NoBuilder
    /\ config \notin {NoConfig, ValueError}
    /\ config.steps[2].dependsOn = <<stages[1].name, "x">>

----------------------------------------------------------------------------
\* Properties of the sessions of one client.

\* C33: the exit monitor of a subprocess touches its own session only.  When
\* the monitor of a subprocess that a shutdown() was run against (and has
\* returned) resumes while a start() made after that shutdown awaits the
\* hello of the subprocess it launched, it fails no pending request written
\* to the new subprocess (that hello included) and leaves the new
\* subprocess's exit future as it was.
C33_MonitorScopedToSession ==
    [][\A p \in Procs :
          (/\ monitor[p] = "waiting" /\ monitor'[p] = "done"
           /\ \E m \in 1..Len(reqs) : reqs[m].proc = p /\ reqs[m].type = "shutdown"
           /\ \A c \in Callers : ~InShutdown(c)
           /\ \E c \in Callers : callers[c].pc = "hello_wait" /\ callers[c].after
           /\ process # NoProc
           /\ process # p) =>
              /\ \A n \in DOMAIN pending :
                    reqs[n].proc = process => n \in DOMAIN pending' /\ fut'[n] = fut[n]
              /\ exitFut'[process] = exitFut[process]]_vars

----------------------------------------------------------------------------
\* Several Agent.wait_for_exit calls on handles of one name (relay.py 104-121).
\* relay._exit_resolvers holds one future per name: exit_resolver_of[n] is the
\* call that created it.

\* Agent.wait_for_exit(timeout_ms) by call w on a handle of n: "exited" at once
\* when n has no handle, "timeout" at once for timeout_ms = 0, else the call's
\* new future replaces whatever relay._exit_resolvers held for n (line 112).
CallWaitForExit(w, n) ==
    /\ exit_calls[w].pc = "none"
    /\ \E timeout_ms \in TimeoutMs \cup {NoId} :
         IF n \notin known_agents
         THEN /\ exit_calls' = [exit_calls EXCEPT ![w] =
                                   [pc |-> "exited", name |-> n, timed |-> FALSE]]
              /\ UNCHANGED <<exit_resolver_of, exit_resolvers>>
         ELSE IF timeout_ms = 0
         THEN /\ exit_calls' = [exit_calls EXCEPT ![w] =
                                   [pc |-> "timeout", name |-> n, timed |-> TRUE]]
              /\ UNCHANGED <<exit_resolver_of, exit_resolvers>>
         ELSE /\ exit_calls' = [exit_calls EXCEPT ![w] =
                                   [pc |-> "waiting", name |-> n,
                                    timed |-> timeout_ms # NoId]]
              /\ exit_resolver_of' = [exit_resolver_of EXCEPT ![n] = w]
              /\ exit_resolvers' = exit_resolvers \cup {n}
    /\ UNCHANGED <<known_agents, stateSets, output_listeners, idle_resolvers, waitVars>>

\* The timeout of call w expires (lines 117-119): the entry of its name is
\* popped, whichever call's future it is.
ExitCallTimeout(w) ==
    /\ exit_calls[w].pc = "waiting"
    /\ exit_calls[w].timed
    /\ exit_calls' = [exit_calls EXCEPT ![w].pc = "timeout"]
    /\ exit_resolver_of' = [exit_resolver_of EXCEPT ![exit_calls[w].name] = NoCall]
    /\ exit_resolvers' = exit_resolvers \ {exit_calls[w].name}
    /\ UNCHANGED <<known_agents, stateSets, output_listeners, idle_resolvers, waitVars>>

\* The task running call w is cancelled while it waits, as wait_for_any does
\* to its pending tasks (relay.py 592-593): its future is cancelled and stays
\* in relay._exit_resolvers if it is the one installed.
ExitCallCancelled(w) ==
    /\ exit_calls[w].pc = "waiting"
    /\ exit_calls' = [exit_calls EXCEPT ![w].pc = "cancelled"]
    /\ UNCHANGED <<exit_resolver_of, facadeVars>>

\* What the pop of relay._exit_resolvers in agent_exited and agent_released
\* does to the calls: the future popped gets the outcome unless it is done
\* (687-689, 673-675); the other calls are not touched.
ResolveExitCall(n, outcome) ==
    LET w == exit_resolver_of[n] IN
    /\ exit_resolver_of' = [exit_resolver_of EXCEPT ![n] = NoCall]
    /\ exit_calls' = IF w # NoCall /\ exit_calls[w].pc = "waiting"
                     THEN [exit_calls EXCEPT ![w].pc = outcome]
                     ELSE exit_calls

\* What the steps of the calls leave alone.
aroundCalls == <<clientVars, anyVars, relayVars, argVars, runVars, buildVars,
                 spawnCall, hookVars, kindless, listVars>>

\* Spawns, exits and releases of two agents beside wait_for_exit calls that
\* may share a name, time out and be cancelled.
CallsNext ==
    \/ \E n \in Names : Spawn(n) /\ UNCHANGED <<aroundCalls, callVars>>
    \/ \E n \in Names : AgentExited(n) /\ ResolveExitCall(n, "exited")
                            /\ UNCHANGED aroundCalls
    \/ \E n \in Names : AgentReleased(n) /\ ResolveExitCall(n, "released")
                            /\ UNCHANGED aroundCalls
    \/ \E w \in ExitCalls, n \in Names : CallWaitForExit(w, n) /\ UNCHANGED aroundCalls
    \/ \E w \in ExitCalls : ExitCallTimeout(w) /\ UNCHANGED aroundCalls
    \/ \E w \in ExitCalls : ExitCallCancelled(w) /\ UNCHANGED aroundCalls

CallsSpec == Init /\ [][CallsNext]_vars

\* agent_exited or agent_released for n is processed in this step, n having a
\* handle: both pop the handle, and nothing else in these steps does.
ExitProcessed(n) == n \in known_agents /\ n \notin known_agents'

\* C34: every wait_for_exit call waiting on a registered agent when
\* agent_exited or agent_released for it is processed returns "exited" or
\* "released" in that step, also when several calls wait on the name and when
\* an earlier call for the name has timed out or was cancelled.
C34_EveryWaiterResolved ==
    [][\A n \in Names : ExitProcessed(n) =>
          \A w \in ExitCalls :
             (exit_calls[w].pc = "waiting" /\ exit_calls[w].name = n)
                => exit_calls'[w].pc \in {"exited", "released"}]_vars

----------------------------------------------------------------------------
\* AgentRelay.spawn in two steps: the request is written, and the call resumes
\* from its response.  The reader task handles the lines the broker wrote in
\* the order it wrote them; a worker_ready line that follows the response (or
\* precedes it) is handled before the task that called spawn() runs again.

\* spawn(name, ...) is called: ensure_started and the spawn request is written
\* (relay.py 421-439).
SpawnRequest(n) ==
    /\ spawnCall[n] = "none"
    /\ spawnCall' = [spawnCall EXCEPT ![n] = "sent"]
    /\ UNCHANGED facadeVars

\* spawn() resumes from the response (relay.py 441-451).
SpawnResumes(n) ==
    /\ spawnCall[n] = "sent"
    /\ spawnCall' = [spawnCall EXCEPT ![n] = "returned"]
    /\ Spawn(n)

\* The broker emits worker_ready for an agent it was asked to spawn.
WorkerReadyOf(n) ==
    /\ spawnCall[n] # "none"
    /\ WorkerReady(n)
    /\ UNCHANGED spawnCall

\* What the steps of the spawns leave alone.
aroundSpawn == <<clientVars, anyVars, relayVars, argVars, runVars, buildVars, callVars,
                 hookVars, kindless, listVars>>

\* Agents spawned once each, their worker_ready, idle and exit events, and
\* waits for readiness.
SpawnNext ==
    \/ \E n \in Names : SpawnRequest(n) /\ UNCHANGED aroundSpawn
    \/ \E n \in Names : SpawnResumes(n) /\ UNCHANGED aroundSpawn
    \/ \E n \in Names : WorkerReadyOf(n) /\ UNCHANGED aroundSpawn
    \/ \E n \in Names : AgentIdle(n) /\ UNCHANGED <<aroundSpawn, spawnCall>>
    \/ \E n \in Names : AgentExited(n) /\ UNCHANGED <<aroundSpawn, spawnCall>>
    \/ \E n \in Names : WaitForAgentReady(n) /\ UNCHANGED <<aroundSpawn, spawnCall>>
    \/ \E n \in Names : WaitForAgentReadyTimeout(n) /\ UNCHANGED <<aroundSpawn, spawnCall>>

SpawnSpec == Init /\ [][SpawnNext]_vars

\* C35: a worker_ready processed between the spawn request and the resumption
\* of spawn() is not lost.  The name is in ready when spawn() resumes only if
\* its worker_ready was processed after the request (names are spawned once
\* and start outside ready); then after spawn() has returned the name is
\* still in ready with its handle, so that its status is not "spawning" and
\* wait_for_agent_ready returns at its first check.
C35_ReadyBeforeSpawnReturns ==
    [][\A n \in Names :
          (/\ spawnCall[n] = "sent"
           /\ spawnCall'[n] = "returned"
           /\ n \in ready_agents) =>
              /\ n \in ready_agents'
              /\ n \in known_agents'
              /\ StatusIn(n, exited_agents', idle_agents', ready_agents') # "spawning"]_vars

----------------------------------------------------------------------------
\* C36: the client owns every broker subprocess that runs.  A subprocess that
\* is running (spawned, not exited and not signalled by shutdown()) is the one
\* self._process refers to, so that no two run at once and none is left
\* behind by a start() that failed after spawning it.
C36_NoAbandonedSubprocess ==
    \A p \in Procs : procState[p] = "running" => process = p

----------------------------------------------------------------------------
\* The caller's hooks (relay.on_agent_spawned, on_agent_ready, on_agent_idle,
\* on_agent_released, on_agent_exited): each handler calls the hook of its
\* kind, if set, at some point of its code; the hook can read the facade.

HookKinds == {"agent_spawned", "worker_ready", "agent_idle", "agent_released",
              "agent_exited"}

\* What a reader of the facade finds for name n, given the registry, the state
\* sets and the resolvers.
Found(kind, n, known, exited, ready, idle, exit_res, idle_res) ==
    [kind |-> kind, name |-> n, known |-> n \in known, exited |-> n \in exited,
     ready |-> n \in ready, idle |-> n \in idle, exit_resolver |-> n \in exit_res,
     idle_resolver |-> n \in idle_res]

\* What the facade holds for n now.
FacadeOf(kind, n) ==
    Found(kind, n, known_agents, exited_agents, ready_agents, idle_agents,
          exit_resolvers, idle_resolvers)

\* The caller sets its hooks, one for every kind.
SetHooks ==
    /\ hooks = {}
    /\ hooks' = HookKinds
    /\ UNCHANGED <<hook_saw, facadeVars>>

\* The hook of the kind, if set, is called with what it can read.
CallHook(kind, seen) ==
    /\ hook_saw' = IF kind \in hooks THEN seen ELSE hook_saw
    /\ UNCHANGED hooks

\* agent_spawned (relay.py 654-661): the hook is called last.
AgentSpawnedHook(n) ==
    /\ AgentSpawned(n)
    /\ CallHook("agent_spawned", FacadeOf("agent_spawned", n)')

\* worker_ready (705-711): the hook is called last.
WorkerReadyHook(n) ==
    /\ WorkerReady(n)
    /\ CallHook("worker_ready", FacadeOf("worker_ready", n)')

\* agent_idle (726-735): the hook is called after the name entered idle (727)
\* and before the idle resolver is popped (733).
AgentIdleHook(n) ==
    /\ AgentIdle(n)
    /\ CallHook("agent_idle",
                Found("agent_idle", n, known_agents', exited_agents', ready_agents',
                      idle_agents', exit_resolvers, idle_resolvers))

\* agent_released and agent_exited (663-697): the hook is called after the
\* handle was looked up or created and the four sets were changed (664-668,
\* 681-687), and before the handle, the output listeners and the two
\* resolvers are popped (672-678, 691-697).
AgentGoneHook(kind, n) ==
    CallHook(kind, Found(kind, n, known_agents \cup {n}, exited_agents',
                         ready_agents', idle_agents', exit_resolvers, idle_resolvers))

AgentReleasedHook(n) ==
    /\ AgentReleased(n)
    /\ AgentGoneHook("agent_released", n)

AgentExitedHook(n) ==
    /\ AgentExited(n)
    /\ AgentGoneHook("agent_exited", n)

\* What the steps of the hooks leave alone.
aroundHooks == <<clientVars, anyVars, relayVars, argVars, runVars, buildVars, callVars,
                 spawnCall, kindless, listVars>>

\* The broker's events with hooks set, beside spawns and waits for exit and
\* for idleness.
HookNext ==
    \/ SetHooks /\ UNCHANGED aroundHooks
    \/ \E n \in Names : Spawn(n) /\ UNCHANGED <<aroundHooks, hookVars>>
    \/ \E n \in Names : AgentSpawnedHook(n) /\ UNCHANGED aroundHooks
    \/ \E n \in Names : WorkerReadyHook(n) /\ UNCHANGED aroundHooks
    \/ \E n \in Names : AgentIdleHook(n) /\ UNCHANGED aroundHooks
    \/ \E n \in Names : AgentReleasedHook(n) /\ UNCHANGED aroundHooks
    \/ \E n \in Names : AgentExitedHook(n) /\ UNCHANGED aroundHooks
    \/ \E n \in Names : WaitForExit(n) /\ UNCHANGED <<aroundHooks, hookVars>>
    \/ \E n \in Names : WaitForIdle(n) /\ UNCHANGED <<aroundHooks, hookVars>>

HookSpec == Init /\ [][HookNext]_vars

\* C37: a hook observes the facade as the event leaves it.  Whenever a hook
\* was called in a step, what it found for the event's name (registry, exited,
\* ready and idle sets, exit and idle resolver) is what the facade holds once
\* the event is handled.
C37_HookSeesStateAfterEvent ==
    [][hook_saw' # hook_saw =>
          \E kind \in HookKinds, n \in Names : hook_saw' = FacadeOf(kind, n)']_vars

----------------------------------------------------------------------------
\* The dispatch of one event line in detail (client.py 302-309): the payload
\* may lack a kind, and a listener may call the unsubscribe that on_event gave
\* it from inside its callback.  The loop `for listener in
\* self._event_listeners` walks the list itself, by position.

\* The loop from position i on: the listener at i is called; if it is one of
\* those that unsubscribe themselves, its first occurrence is removed from
\* the list before the loop goes on to position i + 1.
RECURSIVE DispatchLive(_, _, _, _, _)
DispatchLive(listeners, i, unsub, event, calls) ==
    IF i > Len(listeners) THEN [listeners |-> listeners, calls |-> calls]
    ELSE LET listener == listeners[i]
             after == IF listener \in unsub THEN RemoveFirst(listeners, listener)
                      ELSE listeners IN
         DispatchLive(after, i + 1, unsub, event, Append(calls, <<listener, event>>))

\* _handle_stdout_line for an event envelope, with or without a kind in its
\* payload; the listeners in unsub unsubscribe themselves when called.
HandleEventLine(has_kind, unsub) ==
    LET event == nevents + 1
        out == DispatchLive(event_listeners, 1, unsub, event, <<>>) IN
    /\ nevents < MaxEvents
    /\ nevents' = event
    /\ kindless' = IF has_kind THEN kindless ELSE kindless \cup {event}
    /\ event_buffer' = AppendEvent(event_buffer, event)
    /\ delivered' = out.calls
    /\ event_listeners' = out.listeners
    /\ UNCHANGED lifecycleVars

\* What the steps of the dispatch leave alone.
aroundDispatch == <<errVars, last_stderr_line, exit_detail, stderrState, facadeVars,
                    anyVars, relayVars, argVars, runVars, buildVars, callVars,
                    spawnCall, hookVars, listVars>>

\* Listeners come and go, between the events and during their dispatch.
DispatchNext ==
    \/ \E l \in Listeners : OnEvent(l) /\ UNCHANGED <<aroundDispatch, kindless>>
    \/ \E l \in Listeners : Unsubscribe(l) /\ UNCHANGED <<aroundDispatch, kindless>>
    \/ \E has_kind \in BOOLEAN, unsub \in SUBSET Listeners :
          HandleEventLine(has_kind, unsub) /\ UNCHANGED aroundDispatch

DispatchSpec == Init /\ [][DispatchNext]_vars

\* How often x occurs in the list.
Count(list, x) == Cardinality({i \in 1..Len(list) : list[i] = x})

\* C38: an event whose payload has no kind is dropped: it is not in the ring
\* buffer and no listener was called with it.
C38_KindlessEventDropped ==
    \A event \in kindless :
        /\ \A i \in 1..Len(event_buffer) : event_buffer[i] # event
        /\ \A i \in 1..Len(delivered) : delivered[i][2] # event

\* C40: in the dispatch of an event, every listener that is registered (once)
\* when it begins and still registered when it ends is called exactly once
\* with the event, also when other listeners unsubscribe themselves from
\* inside their callbacks.
C40_DeliveredOncePerListener ==
    [][nevents' # nevents =>
          \A l \in Listeners :
             (Count(event_listeners, l) = 1 /\ Count(event_listeners', l) = 1)
                => Count(delivered', <<l, nevents'>>) = 1]_vars

----------------------------------------------------------------------------
\* AgentRelay.list_agents (relay.py 470-489) in three steps: the request is
\* written, the reader handles the response, the call resumes.  The reader
\* handles the lines that follow the response before the call runs again.

\* list_agents() is called and its request written.
ListAgentsRequest ==
    /\ listCall = "none"
    /\ listCall' = "sent"
    /\ UNCHANGED <<raw_list, facadeVars>>

\* The reader handles the response.  The broker lists agents that run when it
\* answers: the events it wrote before were handled, so none of the names is
\* in the exited set (a name unknown to the facade may be listed).
ListAgentsResponse(names) ==
    /\ listCall = "sent"
    /\ names \cap exited_agents = {}
    /\ listCall' = "answered"
    /\ raw_list' = names
    /\ UNCHANGED facadeVars

\* list_agents() resumes: every listed name without a handle gets one.
ListAgentsResumes ==
    /\ listCall = "answered"
    /\ listCall' = "none"
    /\ raw_list' = {}
    /\ known_agents' = known_agents \cup raw_list
    /\ UNCHANGED <<stateSets, output_listeners, exit_resolvers, idle_resolvers, waitVars>>

\* What the steps around list_agents leave alone.
aroundList == <<clientVars, anyVars, relayVars, argVars, runVars, buildVars, callVars,
                spawnCall, hookVars, kindless>>

\* Spawns, the broker's events, waits for exit and list_agents calls.
ListNext ==
    \/ ListAgentsRequest /\ UNCHANGED aroundList
    \/ \E names \in SUBSET Names : ListAgentsResponse(names) /\ UNCHANGED aroundList
    \/ ListAgentsResumes /\ UNCHANGED aroundList
    \/ \E n \in Names : Spawn(n) /\ UNCHANGED <<aroundList, listVars>>
    \/ \E n \in Names : WorkerReady(n) /\ UNCHANGED <<aroundList, listVars>>
    \/ \E n \in Names : AgentExit(n) /\ UNCHANGED <<aroundList, listVars>>
    \/ \E n \in Names : AgentExited(n) /\ UNCHANGED <<aroundList, listVars>>
    \/ \E n \in Names : AgentReleased(n) /\ UNCHANGED <<aroundList, listVars>>
    \/ \E n \in Names : WaitForExit(n) /\ UNCHANGED <<aroundList, listVars>>
    \/ \E n \in Names : WaitForExitTimeout(n) /\ UNCHANGED <<aroundList, listVars>>

ListSpec == Init /\ [][ListNext]_vars

\* C39: no name is in the handle registry and in the exited set at once: a
\* registered handle never has the status "exited".
C39_NoRegisteredExited ==
    \A n \in Names : n \in known_agents => Status(n) # "exited"

====
